---- MODULE Spec2Model ----
(***************************************************************************)
(* Verification model of SongLines / MusicGraph:                           *)
(*   - src/services/trackCache.ts   (localStorage track cache, LRU + TTL)   *)
(*   - src/services/musicbrainz.ts  (rate limiter, fetchMB, alias table,    *)
(*                                   buildGraphFromTrack and its recording  *)
(*                                   matcher, getArtistRelations,           *)
(*                                   getRecordingCredits, expandTrack,      *)
(*                                   mapMBRelationType)                     *)
(*   - music-graph/src/services/discogs.ts (rate limiter, fetchDiscogs,     *)
(*                                   getTrackCredits, mapDiscogsRole)       *)
(* Each subsystem has its own specification (SpecCache, ...) over the       *)
(* shared variable list; the variables of the other subsystems stay at      *)
(* their initial value.                                                     *)
(***************************************************************************)
EXTENDS Integers, Sequences, FiniteSets, TLC

VARIABLES
    localStorage,   \* browser storage: the persisted index and the cache entries
    now,            \* Date.now()
    last,           \* report of the last cache operation (observation only)
    recency,        \* keys by most recent put / get-hit, newest first (observation only)
    fill,           \* the puts so far, while nothing but first puts has run (observation only)
    lastRequestTime,\* RateLimiter.lastRequestTime
    calls,          \* the throttle() calls: where each one stands, when it returned
    requests,       \* the fetchMB / fetchDiscogs calls: where each one stands, what it sent
    aliasTable,     \* aliasToMbidMap, mbidToCanonicalName, fetchedAliases of musicbrainz.ts
    build,          \* the buildGraphFromTrack call under way: its locals and where it stands
    assemblies,     \* concurrent buildGraphFromTrack calls, as far as the alias fetches go
    probe,          \* the last call of an entry point or pure function: its input and result
    wire,           \* the entry-point call under way, as far as its requests go
    sharers,        \* concurrent buildGraphFromTrack calls, as far as the track cache goes
    images          \* the image section of the buildGraphFromTrack call under way

cacheVars == <<localStorage, last, recency, fill>>
limiterVars == <<lastRequestTime, calls>>
fetchVars == <<requests>>
graphVars == <<aliasTable, build>>
entryVars == <<assemblies, probe>>
pathVars == <<wire, sharers, images>>
vars == <<localStorage, now, last, recency, fill, lastRequestTime, calls, requests, aliasTable, build,
          assemblies, probe, wire, sharers, images>>

(***************************************************************************)
(* Bounds.  MAX_CACHE_SIZE is 150 and the eviction burst is 10 in           *)
(* trackCache.ts; both are scaled down here, keeping burst < capacity <     *)
(* number of keys so that eviction, partial bursts and capacity overflow    *)
(* all occur.                                                               *)
(***************************************************************************)
MAX_CACHE_SIZE == 2
EVICT_BURST == 1
QUOTA == 8
PrefsBytes == 4
MaxTicks == 1
MaxHits == 1
HitDigitStep == 2
MaxReads == 2
MaxOtherBytes == 1
NumReadKeys == 2
MaxDrillItems == 2
NumDrillArtists == 3
ImageTimeout == 2
MaxWait == 4
MaxStack == 4
minInterval == 3
NumCallers == 3
MaxClock == 9
Backoff == 2
MaxSends == 3
NumArtists == 4
NumDiscogs == 2
NumTracks == 1
MaxCredits == 2
MaxRelations == 1
MaxDiscogsCredits == 1
NumEntryArtists == 2
MaxEntryCredits == 1
MaxEntryRelations == 2
MaxEntryCalls == 2
NumAssemblies == 2
MaxAssemblyRuns == 3
MaxClears == 1
MaxAttributes == 2
MaxTracklist == 2
MaxReleaseCredits == 2
MaxCandidates == 3
MaxNameLength == 4
KeySlice == 3
OpenedReleases == 2
MaxAliasCalls == 2
MaxRetries == 1
NumSharers == 3
MaxSharerRuns == 4
MaxChoices == 2
MaxBuilds == 2

NumKeys == 3
CacheKeys == 1..NumKeys

CACHE_VERSION == 1
TTL_MS == 7 * 24 * 60 * 60 * 1000

(***************************************************************************)
(* Small helpers on sequences.                                              *)
(***************************************************************************)
Range(s) == {s[i] : i \in 1..Len(s)}

\* Array.prototype.indexOf, 0-based, -1 when absent
IndexOf(s, x) ==
    IF x \in Range(s) THEN (CHOOSE i \in 1..Len(s) : s[i] = x /\ \A j \in 1..(i-1) : s[j] # x) - 1
    ELSE -1

\* Array.prototype.splice(i, 1) with a 0-based index
Splice1(s, i) == SubSeq(s, 1, i) \o SubSeq(s, i + 2, Len(s))

\* Array.prototype.unshift
Unshift(s, x) == <<x>> \o s

RECURSIVE SumOver(_, _)
SumOver(S, f) == IF S = {} THEN 0 ELSE LET x == CHOOSE y \in S : TRUE IN f[x] + SumOver(S \ {x}, f)

(***************************************************************************)
(* Subgraphs handed to the cache.                                           *)
(***************************************************************************)
Subgraphs ==
    { [entities |-> <<>>, relationships |-> <<>>],
      [entities |-> <<"track">>, relationships |-> <<>>],
      [entities |-> <<"track", "artist">>, relationships |-> <<"primary_artist">>] }

NoResult == [entities |-> <<>>, relationships |-> <<>>, null |-> TRUE]
Result(e, r) == [entities |-> e, relationships |-> r, null |-> FALSE]

(***************************************************************************)
(* localStorage.  index is <<>> when INDEX_KEY is not stored, else a        *)
(* one-element sequence holding the CacheIndex; items maps the stored       *)
(* cache keys to their CachedTrack.  setItem fails with QuotaExceededError  *)
(* when the stored bytes would exceed the quota.                            *)
(***************************************************************************)
NoItems == [k \in {} |-> 0]
EmptyStorage == [index |-> <<>>, items |-> NoItems, other |-> 0]

StoredKeys(ls) == DOMAIN ls.items

SizeOfKey(k) == 1 + (k % 2)
RECURSIVE SizeOfKeys(_)
SizeOfKeys(keys) == IF keys = <<>> THEN 0 ELSE SizeOfKey(Head(keys)) + SizeOfKeys(Tail(keys))
SizeOfIndex(idx) == SizeOfKeys(idx.keys)
\* JSON.stringify(entry): the subgraph, and one character more from the hit
\* that gives hitCount another digit.  Entries not yet stored carry no count
SizeOfEntry(e) ==
    Len(e.entities) + Len(e.relationships)
    + (IF "hitCount" \in DOMAIN e THEN (IF e.hitCount >= HitDigitStep THEN 1 ELSE 0) ELSE 0)

UsedBytes(ls) ==
    ls.other +
    (IF ls.index = <<>> THEN 0 ELSE SizeOfIndex(ls.index[1]))
    + SumOver(StoredKeys(ls), [k \in StoredKeys(ls) |-> SizeOfEntry(ls.items[k])])

\* localStorage.setItem(INDEX_KEY, JSON.stringify(index))
SetIndexItem(ls, idx) ==
    LET new == [ls EXCEPT !.index = <<idx>>]
    IN  IF UsedBytes(new) <= QUOTA THEN [ok |-> TRUE, ls |-> new] ELSE [ok |-> FALSE, ls |-> ls]

\* localStorage.setItem(CACHE_PREFIX + key, JSON.stringify(entry))
SetEntryItem(ls, key, entry) ==
    LET new == [ls EXCEPT !.items = [k \in StoredKeys(ls) \cup {key} |-> IF k = key THEN entry ELSE ls.items[k]]]
    IN  IF UsedBytes(new) <= QUOTA THEN [ok |-> TRUE, ls |-> new] ELSE [ok |-> FALSE, ls |-> ls]

\* localStorage.removeItem(CACHE_PREFIX + key)
RemoveEntryItem(ls, key) ==
    [ls EXCEPT !.items = [k \in StoredKeys(ls) \ {key} |-> ls.items[k]]]

\* localStorage.removeItem(INDEX_KEY)
RemoveIndexItem(ls) == [ls EXCEPT !.index = <<>>]

RECURSIVE RemoveEntries(_, _)
RemoveEntries(ls, keys) ==
    IF keys = <<>> THEN ls ELSE RemoveEntries(RemoveEntryItem(ls, Head(keys)), Tail(keys))

(***************************************************************************)
(* trackCache.ts                                                            *)
(***************************************************************************)
EmptyIndex == [keys |-> <<>>, version |-> CACHE_VERSION]

\* getIndex and clearCache call each other; depth is the call depth, and a
\* call beyond MaxStack frames throws (RangeError), which getIndex's
\* try/catch swallows and clearCache propagates.
RECURSIVE getIndex(_, _)
RECURSIVE clearCache(_, _)

getIndex(ls, depth) ==
    IF depth > MaxStack THEN [threw |-> TRUE, index |-> EmptyIndex, ls |-> ls]
    ELSE IF ls.index = <<>> THEN [threw |-> FALSE, index |-> EmptyIndex, ls |-> ls]
    ELSE IF ls.index[1].version = CACHE_VERSION THEN [threw |-> FALSE, index |-> ls.index[1], ls |-> ls]
    ELSE LET c == clearCache(ls, depth + 1)
         IN  [threw |-> FALSE, index |-> EmptyIndex, ls |-> c.ls]

clearCache(ls, depth) ==
    IF depth > MaxStack THEN [threw |-> TRUE, ls |-> ls]
    ELSE LET g == getIndex(ls, depth + 1)
         IN  IF g.threw THEN [threw |-> TRUE, ls |-> g.ls]
             ELSE [threw |-> FALSE, ls |-> RemoveIndexItem(RemoveEntries(g.ls, g.index.keys))]

\* saveIndex: a failed write is logged and swallowed
saveIndex(ls, idx) == SetIndexItem(ls, idx).ls

isExpired(entry, t) == t - entry.timestamp > TTL_MS

\* variant: the entry is removed, the index is left as it is
removeEntryOnly(ls, key) == RemoveEntryItem(ls, key)

removeCachedTrack(ls, key) ==
    LET ls1 == RemoveEntryItem(ls, key)
        g == getIndex(ls1, 1)
        keyIndex == IndexOf(g.index.keys, key)
    IN  IF keyIndex >= 0
        THEN saveIndex(g.ls, [g.index EXCEPT !.keys = Splice1(g.index.keys, keyIndex)])
        ELSE g.ls

getCachedTrack(ls, key, t) ==
    IF key \notin StoredKeys(ls) THEN [ls |-> ls, result |-> NoResult, expired |-> FALSE]
    ELSE LET entry == ls.items[key]
         IN  IF isExpired(entry, t)
             THEN [ls |-> removeCachedTrack(ls, key), result |-> NoResult, expired |-> TRUE]
             ELSE LET touched == [entry EXCEPT !.lastAccess = t, !.hitCount = entry.hitCount + 1]
                      w == SetEntryItem(ls, key, touched)
                  IN  IF ~w.ok THEN [ls |-> ls, result |-> NoResult, expired |-> FALSE]
                      ELSE LET g == getIndex(w.ls, 1)
                               keyIndex == IndexOf(g.index.keys, key)
                               ls2 == IF keyIndex > 0
                                      THEN saveIndex(g.ls, [g.index EXCEPT !.keys = Unshift(Splice1(g.index.keys, keyIndex), key)])
                                      ELSE g.ls
                           IN  [ls |-> ls2, result |-> Result(touched.entities, touched.relationships), expired |-> FALSE]

\* the loop "while (index.keys.length >= MAX_CACHE_SIZE) pop + removeItem"
\* variant: the newest key is evicted instead of the oldest
RECURSIVE EvictNewestToCapacity(_, _, _)
EvictNewestToCapacity(ls, keys, evicted) ==
    IF Len(keys) >= MAX_CACHE_SIZE
    THEN EvictNewestToCapacity(RemoveEntryItem(ls, keys[1]), Tail(keys), Append(evicted, keys[1]))
    ELSE [ls |-> ls, keys |-> keys, evicted |-> evicted]

\* variant: eviction starts one key too late
RECURSIVE EvictOverCapacity(_, _, _)
EvictOverCapacity(ls, keys, evicted) ==
    IF Len(keys) > MAX_CACHE_SIZE
    THEN EvictOverCapacity(RemoveEntryItem(ls, keys[Len(keys)]), SubSeq(keys, 1, Len(keys) - 1),
                           Append(evicted, keys[Len(keys)]))
    ELSE [ls |-> ls, keys |-> keys, evicted |-> evicted]

RECURSIVE EvictToCapacity(_, _, _)
EvictToCapacity(ls, keys, evicted) ==
    IF Len(keys) >= MAX_CACHE_SIZE
    THEN LET oldestKey == keys[Len(keys)]
         IN  EvictToCapacity(RemoveEntryItem(ls, oldestKey), SubSeq(keys, 1, Len(keys) - 1), Append(evicted, oldestKey))
    ELSE [ls |-> ls, keys |-> keys, evicted |-> evicted]

RECURSIVE EvictLoop(_, _, _, _)
EvictLoop(ls, keys, i, count) ==
    IF i < count /\ Len(keys) > 0
    THEN EvictLoop(RemoveEntryItem(ls, keys[Len(keys)]), SubSeq(keys, 1, Len(keys) - 1), i + 1, count)
    ELSE [ls |-> ls, keys |-> keys]

\* variant: the burst evicts nothing
evictNothing(ls, count) == ls

evictOldEntries(ls, count) ==
    LET g == getIndex(ls, 1)
        e == EvictLoop(g.ls, g.index.keys, 0, count)
    IN  saveIndex(e.ls, [g.index EXCEPT !.keys = e.keys])

\* variant: the entry is stored whatever its entity list
setCachedTrackAlways(ls, key, entities, relationships, t) ==
    LET entry == [entities |-> entities, relationships |-> relationships,
                  timestamp |-> t, lastAccess |-> t, hitCount |-> 0]
        g == getIndex(ls, 1)
        existingIndex == IndexOf(g.index.keys, key)
        keys1 == IF existingIndex >= 0 THEN Splice1(g.index.keys, existingIndex) ELSE g.index.keys
        ev == EvictToCapacity(g.ls, keys1, <<>>)
        index1 == [g.index EXCEPT !.keys = Unshift(ev.keys, key)]
        w == SetEntryItem(saveIndex(ev.ls, index1), key, entry)
    IN  [ls |-> w.ls, attempts |-> 1, evicted |-> ev.evicted, saved |-> SetIndexItem(ev.ls, index1).ok,
         reported |-> ~w.ok]

\* attempts counts the writes of the entry, saved tells whether the index
\* write went through, reported is the final "Still cannot store after eviction"
setCachedTrack(ls, key, entities, relationships, t) ==
    IF Len(entities) = 0
    THEN [ls |-> ls, attempts |-> 0, evicted |-> <<>>, saved |-> TRUE, reported |-> FALSE]
    ELSE LET entry == [entities |-> entities, relationships |-> relationships,
                       timestamp |-> t, lastAccess |-> t, hitCount |-> 0]
             g == getIndex(ls, 1)
             existingIndex == IndexOf(g.index.keys, key)
             keys1 == IF existingIndex >= 0 THEN Splice1(g.index.keys, existingIndex) ELSE g.index.keys
             ev == EvictToCapacity(g.ls, keys1, <<>>)
             index1 == [g.index EXCEPT !.keys = Unshift(ev.keys, key)]
             ls1 == saveIndex(ev.ls, index1)
             saved == SetIndexItem(ev.ls, index1).ok
             w == SetEntryItem(ls1, key, entry)
         IN  IF w.ok
             THEN [ls |-> w.ls, attempts |-> 1, evicted |-> ev.evicted, saved |-> saved, reported |-> FALSE]
             ELSE LET ls2 == evictOldEntries(ls1, EVICT_BURST)
                      w2 == SetEntryItem(ls2, key, entry)
                  IN  [ls |-> w2.ls, attempts |-> 2, evicted |-> ev.evicted, saved |-> saved, reported |-> ~w2.ok]

RECURSIVE TotalHits(_, _)
TotalHits(ls, keys) ==
    IF keys = <<>> THEN 0
    ELSE (IF Head(keys) \in StoredKeys(ls) THEN ls.items[Head(keys)].hitCount ELSE 0) + TotalHits(ls, Tail(keys))

getCacheStats(ls) ==
    LET g == getIndex(ls, 1)
    IN  [ls |-> g.ls,
         trackCount |-> Len(g.index.keys),
         totalHits |-> TotalHits(g.ls, g.index.keys)]

RECURSIVE RemoveAll(_, _)
RemoveAll(ls, keys) ==
    IF keys = <<>> THEN ls ELSE RemoveAll(removeCachedTrack(ls, Head(keys)), Tail(keys))

cleanupExpiredEntries(ls, t) ==
    LET g == getIndex(ls, 1)
        keysToRemove == SelectSeq(g.index.keys,
                            LAMBDA k : IF k \in StoredKeys(g.ls) THEN isExpired(g.ls.items[k], t) ELSE TRUE)
    IN  [ls |-> RemoveAll(g.ls, keysToRemove), removed |-> Len(keysToRemove)]

(***************************************************************************)
(* The cache as a state machine: one action per exported operation, plus    *)
(* the clock.  last (what the latest operation did) and recency (the index  *)
(* keys by most recent put or get-hit, newest first) only observe.          *)
(***************************************************************************)
Report(op) ==
    [op |-> op, hit |-> FALSE, expired |-> FALSE,
     evicted |-> 0, attempts |-> 0, reported |-> FALSE, mismatch |-> FALSE]

\* an index persisted by an earlier format version, with the entry it lists
LegacyStorage ==
    [index |-> <<[keys |-> <<1>>, version |-> CACHE_VERSION - 1]>>,
     items |-> [k \in {1} |-> [entities |-> <<"track">>, relationships |-> <<>>,
                               timestamp |-> 0, lastAccess |-> 0, hitCount |-> 0]],
     other |-> 0]

\* storage that also holds the preferences useLocalStorage.ts keeps under
\* 'musicgraph-prefs'; they share the origin's quota with the cache
PrefsStorage == [EmptyStorage EXCEPT !.other = PrefsBytes]

VersionMismatch(ls) == ls.index # <<>> /\ ls.index[1].version # CACHE_VERSION

IndexKeys(ls) == IF ls.index = <<>> THEN <<>> ELSE ls.index[1].keys

\* move-to-front on the observation list, kept to the keys the index lists
Touch(rec, key) == <<key>> \o SelectSeq(rec, LAMBDA k : k # key)
Listed(rec, ls) == SelectSeq(rec, LAMBDA k : k \in Range(IndexKeys(ls)))

\* fill: the keys put so far and whether every write of those puts went
\* through, as long as the operations so far are puts of pairwise distinct
\* keys with non-empty subgraphs; Spoiled from the first other operation on
Spoiled == [distinct |-> FALSE, keys |-> <<>>, written |-> FALSE]
Filled(f, key, graph, r) ==
    IF f.distinct /\ Len(graph.entities) > 0 /\ key \notin Range(f.keys)
    THEN [distinct |-> TRUE, keys |-> Append(f.keys, key),
          written |-> f.written /\ r.saved /\ r.attempts = 1]
    ELSE Spoiled

\* the values Date.now() takes: the start, one TTL later, and just after that
ClockValues == {0, TTL_MS} \cup {TTL_MS + i : i \in 1..MaxTicks}

\* the state at module load: nothing cached, no call under way
FreshCache ==
    /\ last = Report("init")
    /\ recency = <<>>
    /\ fill = [distinct |-> TRUE, keys |-> <<>>, written |-> TRUE]

Callers == 1..NumCallers
NoCalls == [c \in Callers |-> [pc |-> "idle", wakeAt |-> 0, returnedAt |-> 0]]
FreshLimiter ==
    /\ lastRequestTime = 0
    /\ calls = NoCalls

Services == {"musicbrainz", "discogs"}
NoRequests ==
    [s \in Services |-> [pc |-> "idle", sends |-> 0, retries |-> 0, status |-> 0,
                         wakeAt |-> 0, lastRequestTime |-> 0]]
FreshFetch == requests = NoRequests

\* Map.set, Map.get on a function whose domain is the set of keys
NoMap == [k \in {} |-> 0]
MapSet(m, k, v) == [x \in DOMAIN m \cup {k} |-> IF x = k THEN v ELSE m[x]]

\* no concurrent call has started: where each call stands, the artists it
\* credits and the alias fetches it awaits; the alias requests in flight, as
\* <<call, MBID>>; issued counts the alias requests sent per MBID since the
\* module was loaded or the alias cache was last cleared (observation only)
Assemblies == 1..NumAssemblies
NoAssemblies ==
    [calls |-> [a \in Assemblies |-> [pc |-> "idle", credited |-> {}, pending |-> {}]],
     inflight |-> {},
     issued |-> [m \in 1..NumArtists |-> 0],
     runs |-> 0,
     clears |-> 0]

\* no entry point has been called
NoProbe == [op |-> "none"]

NoAliases == [aliasToMbidMap |-> NoMap, mbidToCanonicalName |-> NoMap, fetchedAliases |-> {}]

\* no buildGraphFromTrack call under way.  credited, filed and merged observe
\* the call's inputs: the MBIDs credited on the track so far, the name and
\* role of each personnel, work and Discogs credit processed so far, and the
\* Discogs credits as they arrived
NoBuild ==
    [pc |-> "idle", key |-> 0, entities |-> <<>>, relationships |-> <<>>,
     entityIds |-> {}, normalizedArtistNames |-> {}, primaryArtistIds |-> {}, albumArtistIds |-> <<>>,
     nextIsFeatured |-> FALSE, pending |-> {}, result |-> NoResult, builds |-> 0,
     credited |-> {}, filed |-> {}, merged |-> <<>>]
\* no entry point is requesting anything.  sent lists the paths of the
\* requests sent; opened and hits list the releases opened by
\* findRecordingViaRelease and what each lookup gave, stores counts the
\* calls of setCachedTrack (observation only)
NoWire ==
    [op |-> "none", pc |-> "idle", album |-> FALSE, cached |-> FALSE, fetches |-> {}, sent |-> <<>>,
     releases |-> <<>>, ranked |-> <<>>, opened |-> <<>>, hits |-> <<>>, viaRelease |-> "untried",
     candidates |-> FALSE, failed |-> FALSE, resolved |-> FALSE, retried |-> FALSE,
     details |-> [releases |-> "missing", relations |-> "missing"],
     outcome |-> "none", graph |-> {}, stores |-> 0]

\* no concurrent call has reached the cache; put is, per key, the graphs
\* handed to setCachedTrack so far, in order, and written those among them
\* whose entry was stored (observation only)
Sharers == 1..NumSharers
NoSharers ==
    [calls |-> [c \in Sharers |-> [pc |-> "idle", key |-> 0, hit |-> FALSE]],
     put |-> [k \in CacheKeys |-> <<>>],
     written |-> [k \in CacheKeys |-> <<>>],
     runs |-> 0]

\* the image section has not been reached.  fetches is where each image
\* promise stands, image which entities carry an image; pending is the
\* promises unsettled when the wait ended, persisted and returned the
\* entities with an image when the graph was cached and returned, waited the
\* time the call has spent waiting for images (observation only)
GraphEntities == {"artist", "personnel", "album", "track"}
NoImages ==
    [pc |-> "idle", single |-> FALSE,
     fetches |-> [e \in GraphEntities |-> "none"],
     image |-> [e \in GraphEntities |-> FALSE],
     waited |-> 0, timedOut |-> FALSE, pending |-> {}, persisted |-> {}, returned |-> {}]

FreshGraph ==
    /\ aliasTable = NoAliases
    /\ build = NoBuild
    /\ assemblies = NoAssemblies
    /\ probe = NoProbe
    /\ wire = NoWire
    /\ sharers = NoSharers
    /\ images = NoImages

InitCache ==
    /\ localStorage \in {EmptyStorage, LegacyStorage, PrefsStorage}
    /\ now = 0
    /\ FreshCache
    /\ FreshLimiter
    /\ FreshFetch
    /\ FreshGraph

Get(key) ==
    /\ key \in StoredKeys(localStorage) => localStorage.items[key].hitCount < MaxHits
    /\ LET r == getCachedTrack(localStorage, key, now)
       IN  /\ localStorage' = r.ls
           /\ last' = [Report("get") EXCEPT !.hit = ~r.result.null, !.expired = r.expired,
                                            !.mismatch = VersionMismatch(localStorage)]
           /\ recency' = Listed(IF r.result.null THEN recency ELSE Touch(recency, key), r.ls)
    /\ fill' = Spoiled
    /\ UNCHANGED <<now, limiterVars, fetchVars, graphVars, entryVars, pathVars>>

Put(key, graph) ==
    /\ LET r == setCachedTrack(localStorage, key, graph.entities, graph.relationships, now)
       IN  /\ localStorage' = r.ls
           /\ last' = [Report("put") EXCEPT !.evicted = Len(r.evicted), !.attempts = r.attempts,
                                            !.reported = r.reported,
                                            !.mismatch = VersionMismatch(localStorage)]
           /\ recency' = Listed(IF Len(graph.entities) = 0 THEN recency ELSE Touch(recency, key), r.ls)
           /\ fill' = Filled(fill, key, graph, r)
    /\ UNCHANGED <<now, limiterVars, fetchVars, graphVars, entryVars, pathVars>>

Stats ==
    /\ localStorage' = getCacheStats(localStorage).ls
    /\ last' = [Report("stats") EXCEPT !.mismatch = VersionMismatch(localStorage)]
    /\ recency' = Listed(recency, localStorage')
    /\ fill' = Spoiled
    /\ UNCHANGED <<now, limiterVars, fetchVars, graphVars, entryVars, pathVars>>

Clear ==
    /\ localStorage' = clearCache(localStorage, 1).ls
    /\ last' = [Report("clear") EXCEPT !.mismatch = VersionMismatch(localStorage)]
    /\ recency' = Listed(recency, localStorage')
    /\ fill' = Spoiled
    /\ UNCHANGED <<now, limiterVars, fetchVars, graphVars, entryVars, pathVars>>

\* module load of musicbrainz.ts runs cleanupExpiredEntries()
Cleanup ==
    /\ localStorage' = cleanupExpiredEntries(localStorage, now).ls
    /\ last' = [Report("cleanup") EXCEPT !.mismatch = VersionMismatch(localStorage)]
    /\ recency' = Listed(recency, localStorage')
    /\ fill' = Spoiled
    /\ UNCHANGED <<now, limiterVars, fetchVars, graphVars, entryVars, pathVars>>

Tick(t) ==
    /\ t > now
    /\ now' = t
    /\ UNCHANGED <<cacheVars, limiterVars, fetchVars, graphVars, entryVars, pathVars>>

NextCache ==
    \/ \E key \in CacheKeys : Get(key)
    \/ \E key \in CacheKeys, graph \in Subgraphs : Put(key, graph)
    \/ Stats
    \/ Clear
    \/ Cleanup
    \/ \E t \in ClockValues : Tick(t)

SpecCache == InitCache /\ [][NextCache]_vars


(***************************************************************************)
(* Claims about the track cache.                                            *)
(***************************************************************************)
CurrentKeys == getIndex(localStorage, 1).index.keys

\* the observation list and the index list the same keys
RecencyCoversIndex == VersionMismatch(localStorage) \/ Range(recency) = Range(IndexKeys(localStorage))

\* C3: a put of a new key that finds the index at capacity evicts exactly one
\* key, the key of the index whose most recent put or get-hit is the oldest,
\* and removes its entry from storage; when the entry is written at the first
\* attempt every other key stays in the index and the new key is at its front
\* (capacity 2: put k1, put k2, get k1, put k3 evicts k2 and keeps k1).
C3_EvictsLeastRecentlyUsed ==
    [][(last'.op = "put" /\ Len(CurrentKeys) >= MAX_CACHE_SIZE) =>
       \A key \in CacheKeys \ Range(CurrentKeys), graph \in Subgraphs :
          (Len(graph.entities) > 0 /\ Put(key, graph))
          => LET r == setCachedTrack(localStorage, key, graph.entities, graph.relationships, now)
                 lru == recency[Len(recency)]
             IN  /\ Range(recency) = Range(CurrentKeys)
                 /\ r.evicted = <<lru>>
                 /\ lru \notin StoredKeys(localStorage')
                 /\ r.attempts = 1 =>
                       IndexKeys(localStorage') = <<key>> \o SelectSeq(CurrentKeys, LAMBDA k : k # lru)]_vars

C3_Witness ==
    /\ last.op = "put" /\ last.evicted = 1 /\ last.attempts = 1
    /\ Len(IndexKeys(localStorage)) = MAX_CACHE_SIZE
    /\ Len(recency) = MAX_CACHE_SIZE

\* C4 (as claimed): the index never holds more than MAX_CACHE_SIZE keys, and
\* after MAX_CACHE_SIZE + 1 puts of pairwise distinct keys with non-empty
\* subgraphs the statistics count MAX_CACHE_SIZE tracks and the first key
\* put is in neither the index nor storage.
FirstKeyEvicted ==
    /\ getCacheStats(localStorage).trackCount = MAX_CACHE_SIZE
    /\ fill.keys[1] \notin Range(IndexKeys(localStorage))
    /\ fill.keys[1] \notin StoredKeys(localStorage)

C4_CapacityBound ==
    /\ Len(CurrentKeys) <= MAX_CACHE_SIZE
    /\ (fill.distinct /\ Len(fill.keys) = MAX_CACHE_SIZE + 1) => FirstKeyEvicted

\* C4 (amended): the same, for puts none of which had a storage write
\* refused for lack of quota.
C4_CapacityBoundWhenWritten ==
    /\ Len(CurrentKeys) <= MAX_CACHE_SIZE
    /\ ~VersionMismatch(localStorage) => Len(IndexKeys(localStorage)) <= MAX_CACHE_SIZE
    /\ (fill.distinct /\ fill.written /\ Len(fill.keys) = MAX_CACHE_SIZE + 1) => FirstKeyEvicted

C4_Witness ==
    /\ fill.distinct /\ fill.written /\ Len(fill.keys) = MAX_CACHE_SIZE + 1
    /\ last.op = "put" /\ last.evicted = 1

\* C5: a get for a key whose stored entry is older than the TTL returns a
\* miss, and after it the key is in neither the index nor storage.
C5_ExpiredGetRemoves ==
    [][last'.op = "get" =>
       \A key \in StoredKeys(localStorage) :
          (now - localStorage.items[key].timestamp > TTL_MS /\ Get(key))
          => /\ getCachedTrack(localStorage, key, now).result.null
             /\ key \notin StoredKeys(localStorage')
             /\ key \notin Range(IndexKeys(localStorage'))]_vars

C5_Witness ==
    /\ last.op = "get" /\ last.expired /\ ~last.hit
    /\ now > TTL_MS
    /\ IndexKeys(localStorage) # <<>>

\* C6 (as claimed): a get that hits returns the stored entities and
\* relationships, sets lastAccess to the current time, adds one to hitCount,
\* and leaves the key at the front of the index with the other keys in their
\* previous relative order.
C6_HitUpdatesEntryAndOrder ==
    [][last'.op = "get" =>
       \A key \in StoredKeys(localStorage) :
          (Get(key) /\ last'.hit)
          => LET r == getCachedTrack(localStorage, key, now)
                 before == localStorage.items[key]
                 after == localStorage'.items[key]
             IN  /\ r.result = Result(before.entities, before.relationships)
                 /\ after = [before EXCEPT !.lastAccess = now, !.hitCount = before.hitCount + 1]
                 /\ IndexKeys(localStorage') = <<key>> \o SelectSeq(CurrentKeys, LAMBDA k : k # key)]_vars

\* C7: when the first write of the entry fails on quota, put evicts the
\* EVICT_BURST oldest keys of the stored index (all of them when it lists
\* fewer) and writes the entry exactly once more; a second failure is
\* reported and leaves the entry unwritten.
OldestDropped(keys) == SubSeq(keys, 1, Len(keys) - (IF Len(keys) < EVICT_BURST THEN Len(keys) ELSE EVICT_BURST))

C7_QuotaBurstAndSingleRetry ==
    [][(last'.op = "put" /\ last'.attempts > 1) =>
       \A key \in CacheKeys, graph \in Subgraphs :
          (Len(graph.entities) > 0 /\ Put(key, graph))
          => LET r == setCachedTrack(localStorage, key, graph.entities, graph.relationships, now)
                 entry == [entities |-> graph.entities, relationships |-> graph.relationships,
                           timestamp |-> now, lastAccess |-> now, hitCount |-> 0]
                 written == key \in StoredKeys(localStorage') /\ localStorage'.items[key] = entry
             IN  /\ r.attempts = 2
                 /\ \E stored \in {CurrentKeys, <<key>> \o SelectSeq(CurrentKeys, LAMBDA k : k # key /\ k \notin Range(r.evicted))} :
                       /\ IndexKeys(localStorage') = OldestDropped(stored)
                       /\ \A k \in Range(stored) \ Range(OldestDropped(stored)) :
                             k \notin StoredKeys(localStorage') \/ (k = key /\ written)
                 /\ r.reported <=> ~written]_vars

C7_Witness == last.op = "put" /\ last.attempts = 2 /\ ~last.reported /\ IndexKeys(localStorage) # <<>>

C7_WitnessReported == last.op = "put" /\ last.attempts = 2 /\ last.reported

\* C8 (as claimed): an operation that reads an index of another format
\* version leaves storage without that index and without any entry it listed.
C8_MismatchClearsWholeCache ==
    [][(VersionMismatch(localStorage) /\ ~VersionMismatch(localStorage') /\ last'.op \in {"stats", "clear", "cleanup"})
          => \A k \in Range(localStorage.index[1].keys) : k \notin StoredKeys(localStorage')]_vars

\* C27: a put with an empty entity list leaves storage as it was: the index
\* with its keys in their order, and every stored entry with its hit count,
\* the entry stored under the key of the put included.
C27_EmptyPutChangesNothing ==
    [][last'.op = "put" =>
       \A key \in CacheKeys, graph \in Subgraphs :
          (Len(graph.entities) = 0 /\ Put(key, graph)) => localStorage' = localStorage]_vars

\* an empty put has just run on a cache that holds every key, one of them
\* with a hit
C27_Witness ==
    /\ last.op = "put" /\ last.attempts = 0
    /\ Len(IndexKeys(localStorage)) = MAX_CACHE_SIZE
    /\ \E k \in StoredKeys(localStorage) : localStorage.items[k].hitCount > 0

\* C28 (as claimed): after clear() storage holds no index and no entry, the
\* statistics count no track, and a get of any key is a miss.
C28_ClearLeavesNothing ==
    last.op = "clear" =>
       /\ localStorage.index = <<>>
       /\ StoredKeys(localStorage) = {}
       /\ getCacheStats(localStorage).trackCount = 0
       /\ \A key \in CacheKeys : getCachedTrack(localStorage, key, now).result.null

(***************************************************************************)
(* RateLimiter.throttle (musicbrainz.ts and discogs.ts hold the same        *)
(* class).  A call reads the clock and lastRequestTime, sleeps for the      *)
(* remainder of minInterval when less has elapsed, and stores the clock in  *)
(* lastRequestTime when it resumes.  Calls overlap: Promise.all over        *)
(* fetchArtistAliases starts one throttle() per credited artist.  Date.now()*)
(* is far above minInterval at the first call, so the clock starts there.   *)
(***************************************************************************)
Returned(c) == [pc |-> "returned", wakeAt |-> 0, returnedAt |-> now]

\* the synchronous part of throttle(): up to the await, or through to the end
Throttle(c) ==
    /\ calls[c].pc = "idle"
    /\ LET elapsed == now - lastRequestTime
       IN  IF elapsed < minInterval
           THEN /\ calls' = [calls EXCEPT ![c] = [pc |-> "waiting", wakeAt |-> now + (minInterval - elapsed),
                                                  returnedAt |-> 0]]
                /\ UNCHANGED lastRequestTime
           ELSE /\ calls' = [calls EXCEPT ![c] = Returned(c)]
                /\ lastRequestTime' = now
    /\ UNCHANGED <<now, cacheVars, fetchVars, localStorage, graphVars, entryVars, pathVars>>

\* the timer fires, at its due time or later, and throttle() resumes
Resume(c) ==
    /\ calls[c].pc = "waiting"
    /\ now >= calls[c].wakeAt
    /\ calls' = [calls EXCEPT ![c] = Returned(c)]
    /\ lastRequestTime' = now
    /\ UNCHANGED <<now, cacheVars, fetchVars, localStorage, graphVars, entryVars, pathVars>>

ClockTick ==
    /\ now < MaxClock
    /\ now' = now + 1
    /\ UNCHANGED <<cacheVars, limiterVars, fetchVars, localStorage, graphVars, entryVars, pathVars>>

InitLimiter ==
    /\ localStorage = EmptyStorage
    /\ now = minInterval
    /\ FreshCache
    /\ FreshLimiter
    /\ FreshFetch
    /\ FreshGraph

NextLimiter ==
    \/ \E c \in Callers : Throttle(c)
    \/ \E c \in Callers : Resume(c)
    \/ ClockTick

SpecLimiter == InitLimiter /\ [][NextLimiter]_vars

\* C9 (as claimed): any two throttle() calls, overlapping ones included,
\* return at least minInterval apart.
C9_ReturnsSpaced ==
    \A c, d \in Callers :
       (c # d /\ calls[c].pc = "returned" /\ calls[d].pc = "returned")
       => \/ calls[c].returnedAt - calls[d].returnedAt >= minInterval
          \/ calls[d].returnedAt - calls[c].returnedAt >= minInterval

(***************************************************************************)
(* fetchMB and fetchDiscogs.  Both wait for their rate limiter, send the    *)
(* request and throw on a response that is not ok; fetchDiscogs alone       *)
(* handles 429, by sleeping and calling itself again.                       *)
(***************************************************************************)
Statuses == {200, 429, 500}

\* rateLimiter.throttle() followed by fetch(): the request goes out at once
\* when minInterval has elapsed, otherwise when the limiter's timer fires
Send(r) == [r EXCEPT !.pc = "awaiting", !.sends = r.sends + 1, !.lastRequestTime = now, !.wakeAt = 0]

FetchCall(s) ==
    /\ requests[s].pc \in {"idle", "again"}
    /\ requests[s].sends < MaxSends
    /\ LET r == requests[s]
           elapsed == now - r.lastRequestTime
       IN  requests' = [requests EXCEPT ![s] =
                           IF elapsed < minInterval
                           THEN [r EXCEPT !.pc = "throttled", !.wakeAt = now + (minInterval - elapsed)]
                           ELSE Send(r)]
    /\ UNCHANGED <<now, cacheVars, limiterVars, localStorage, graphVars, entryVars, pathVars>>

FetchResume(s) ==
    /\ requests[s].pc = "throttled"
    /\ now >= requests[s].wakeAt
    /\ requests' = [requests EXCEPT ![s] = Send(requests[s])]
    /\ UNCHANGED <<now, cacheVars, limiterVars, localStorage, graphVars, entryVars, pathVars>>

\* what each function does with a response
Responded(s, r, status) ==
    IF status = 200 THEN [r EXCEPT !.pc = "returned", !.status = status]
    ELSE IF s = "discogs" /\ status = 429
         THEN [r EXCEPT !.pc = "backoff", !.status = status, !.wakeAt = now + Backoff]
         ELSE [r EXCEPT !.pc = "threw", !.status = status]

FetchRespond(s, status) ==
    /\ requests[s].pc = "awaiting"
    /\ requests' = [requests EXCEPT ![s] = Responded(s, requests[s], status)]
    /\ UNCHANGED <<now, cacheVars, limiterVars, localStorage, graphVars, entryVars, pathVars>>

\* the 60 s sleep of fetchDiscogs is over: return fetchDiscogs(endpoint, params)
FetchAgain(s) ==
    /\ requests[s].pc = "backoff"
    /\ now >= requests[s].wakeAt
    /\ requests' = [requests EXCEPT ![s] = [@ EXCEPT !.pc = "again", !.retries = @ + 1, !.wakeAt = 0]]
    /\ UNCHANGED <<now, cacheVars, limiterVars, localStorage, graphVars, entryVars, pathVars>>

InitFetch ==
    /\ localStorage = EmptyStorage
    /\ now = minInterval
    /\ FreshCache
    /\ FreshLimiter
    /\ FreshFetch
    /\ FreshGraph

NextFetch ==
    \/ \E s \in Services : FetchCall(s)
    \/ \E s \in Services : FetchResume(s)
    \/ \E s \in Services, status \in Statuses : FetchRespond(s, status)
    \/ \E s \in Services : FetchAgain(s)
    \/ ClockTick

SpecFetch == InitFetch /\ [][NextFetch]_vars

\* C10 (as claimed): a request answered 429 is sent once more after the
\* backoff and the error is then propagated; no request is sent more than
\* twice.
C10_RetriedOnceThenPropagated ==
    \A s \in Services :
       /\ requests[s].sends <= 2
       /\ (requests[s].status = 429 /\ requests[s].sends = 2) => requests[s].pc = "threw"
       /\ (requests[s].status = 429 /\ requests[s].pc = "threw") => requests[s].sends = 2

(***************************************************************************)
(* Names.  A name is a sequence of one-character strings, so that the       *)
(* normalisers of musicbrainz.ts can be computed character by character.    *)
(***************************************************************************)
UpperCase == <<"A","B","C","D","E","F","G","H","I","J","K","L","M",
               "N","O","P","Q","R","S","T","U","V","W","X","Y","Z">>
LowerCase == <<"a","b","c","d","e","f","g","h","i","j","k","l","m",
               "n","o","p","q","r","s","t","u","v","w","x","y","z">>
Digits == {"0","1","2","3","4","5","6","7","8","9"}

\* String.prototype.toLowerCase on one character
ToLowerChar(c) ==
    IF c \in Range(UpperCase) THEN LowerCase[CHOOSE i \in 1..26 : UpperCase[i] = c] ELSE c
toLowerCase(str) == [i \in 1..Len(str) |-> ToLowerChar(str[i])]

\* the regular-expression classes \w and \s
IsWord(c) == c \in Range(UpperCase) \cup Range(LowerCase) \cup Digits \cup {"_"}
IsSpace(c) == c \in {" ", "\t", "\n"}

\* str.replace(/\s+/g, ' ')
RECURSIVE CollapseSpaces(_)
CollapseSpaces(str) ==
    IF str = <<>> THEN <<>>
    ELSE IF IsSpace(Head(str))
         THEN IF Tail(str) # <<>> /\ IsSpace(Head(Tail(str)))
              THEN CollapseSpaces(Tail(str))
              ELSE <<" ">> \o CollapseSpaces(Tail(str))
         ELSE <<Head(str)>> \o CollapseSpaces(Tail(str))

\* str.trim()
RECURSIVE TrimStart(_)
TrimStart(str) == IF str # <<>> /\ IsSpace(Head(str)) THEN TrimStart(Tail(str)) ELSE str
RECURSIVE TrimEnd(_)
TrimEnd(str) ==
    IF str # <<>> /\ IsSpace(str[Len(str)]) THEN TrimEnd(SubSeq(str, 1, Len(str) - 1)) ELSE str
Trim(str) == TrimEnd(TrimStart(str))

\* variant of normalizeForCache: trimmed before the punctuation is removed
normalizeForCacheTrimmedFirst(str) ==
    SelectSeq(Trim(toLowerCase(str)), LAMBDA c : IsWord(c) \/ IsSpace(c))

normalizeForCache(str) ==
    Trim(SelectSeq(toLowerCase(str), LAMBDA c : IsWord(c) \/ IsSpace(c)))

normalizeForComparison(str) ==
    Trim(CollapseSpaces(SelectSeq(toLowerCase(str), LAMBDA c : IsWord(c) \/ IsSpace(c))))

normalizeArtistName(name) ==
    Trim(CollapseSpaces(SelectSeq(toLowerCase(name), LAMBDA c : c \notin {".", "-", "_", "$"})))

(***************************************************************************)
(* buildGraphFromTrack and the alias table.                                 *)
(*                                                                          *)
(* The MusicBrainz and Discogs catalogues are outside the program: a small  *)
(* sample stands for them.  An artist's name is a function of its MBID      *)
(* (the code reads credit.artist.name and rel.artist.name), and artist 1    *)
(* lists the name of artist 2 among its aliases; artists 2 and 3 have       *)
(* names that differ in punctuation only.                                   *)
(***************************************************************************)
Mbids == 1..NumArtists
DiscogsIds == 1..NumDiscogs

ArtistName(m) ==
    CASE m = 1 -> <<"W", "k">>
      [] m = 2 -> <<"A", "b">>
      [] m = 3 -> <<"A", ".", "b">>
      [] OTHER -> <<"P", "q">>

ArtistAliases(m) == IF m = 1 THEN << <<"A", "b">> >> ELSE <<>>

DiscogsName(d) == IF d = 1 THEN <<"A", "b">> ELSE <<"P", "q", " ", "(", "2", ")">>

TrackTitle == <<"S", "o">>
AlbumTitle == <<"L", "p">>

\* cleanArtistName of discogs.ts: name.replace(/\s*\(\d+\)\s*$/, '').trim()
RECURSIVE DropDigits(_)
DropDigits(str) ==
    IF str # <<>> /\ str[Len(str)] \in Digits THEN DropDigits(SubSeq(str, 1, Len(str) - 1)) ELSE str
cleanArtistName(name) ==
    LET a == TrimEnd(name)
        closed == a # <<>> /\ a[Len(a)] = ")"
        b == IF closed THEN DropDigits(SubSeq(a, 1, Len(a) - 1)) ELSE a
        numbered == closed /\ Len(b) < Len(a) - 1 /\ b # <<>> /\ b[Len(b)] = "("
    IN  Trim(IF numbered THEN TrimEnd(SubSeq(b, 1, Len(b) - 1)) ELSE name)

\* String.prototype.includes
Includes(str, part) ==
    \/ part = <<>>
    \/ \E i \in 1..(Len(str) - Len(part) + 1) : SubSeq(str, i, i + Len(part) - 1) = part

\* the MBID as a one-element sequence, << >> for undefined
resolveArtistAlias(table, name) ==
    LET normalized == normalizeForCache(name)
    IN  IF normalized \in DOMAIN table.aliasToMbidMap THEN <<table.aliasToMbidMap[normalized]>> ELSE <<>>

\* fetchArtistAliases without the test of fetchedAliases
fetchArtistAliasesAgain(table, mbid, primaryName) ==
    [table |-> [aliasToMbidMap |-> MapSet(table.aliasToMbidMap, normalizeForCache(primaryName), mbid),
                mbidToCanonicalName |-> MapSet(table.mbidToCanonicalName, mbid, primaryName),
                fetchedAliases |-> table.fetchedAliases \cup {mbid}],
     started |-> TRUE]

\* fetchArtistAliases up to its await: the MBID is marked as fetched and the
\* primary name is mapped; started tells whether a request goes out
fetchArtistAliases(table, mbid, primaryName) ==
    IF mbid \in table.fetchedAliases THEN [table |-> table, started |-> FALSE]
    ELSE [table |-> [aliasToMbidMap |-> MapSet(table.aliasToMbidMap, normalizeForCache(primaryName), mbid),
                     mbidToCanonicalName |-> MapSet(table.mbidToCanonicalName, mbid, primaryName),
                     fetchedAliases |-> table.fetchedAliases \cup {mbid}],
          started |-> TRUE]

\* fetchArtistAliases after the await: the aliases not yet in the map are added
RECURSIVE AddAliases(_, _, _)
AddAliases(map, aliases, mbid) ==
    IF aliases = <<>> THEN map
    ELSE LET normalizedAlias == normalizeForCache(Head(aliases))
         IN  AddAliases(IF normalizedAlias \in DOMAIN map THEN map ELSE MapSet(map, normalizedAlias, mbid),
                        Tail(aliases), mbid)

ArtistId(m) == <<"artist", m>>
DiscogsArtistId(d) == <<"artist-discogs", d>>
TrackId(t) == <<"track", t>>
AlbumId(t) == <<"release", t>>
Entity(id, name, type) == [id |-> id, name |-> name, type |-> type]
Relationship(id, source, target, role) == [id |-> id, source |-> source, target |-> target, role |-> role]
RelId(trackId, artistId, role) == <<"rel", trackId, artistId, role, "">>

\* entities.find(e => normalizeArtistName(e.name) === normalizedName && e.type === 'artist'),
\* as a one-element sequence, << >> for undefined
FindArtistNamed(entities, normalizedName) ==
    LET hits == {i \in 1..Len(entities) :
                    normalizeArtistName(entities[i].name) = normalizedName /\ entities[i].type = "artist"}
    IN  IF hits = {} THEN <<>> ELSE <<entities[CHOOSE i \in hits : \A j \in hits : i <= j]>>

HasRelId(relationships, relId) == \E i \in 1..Len(relationships) : relationships[i].id = relId

\* one pass of the artist-credit loop; st carries the locals of the call and
\* nextIsFeatured
CreditStep(st, credit, artistName) ==
    LET name == ArtistName(credit.artist)
        artistId == ArtistId(credit.artist)
        isFeatured == st.nextIsFeatured
        normalizedCreditArtist == normalizeForComparison(name)
        normalizedSearchArtist == normalizeForComparison(artistName)
        matchesSearchedArtist ==
            \/ normalizedCreditArtist = normalizedSearchArtist
            \/ Includes(normalizedCreditArtist, normalizedSearchArtist)
            \/ Includes(normalizedSearchArtist, normalizedCreditArtist)
        normalizedName == normalizeArtistName(name)
        isNew == artistId \notin st.entityIds /\ normalizedName \notin st.normalizedArtistNames
        existingArtist ==
            IF ~isNew /\ normalizedName \in st.normalizedArtistNames /\ artistId \notin st.entityIds
            THEN FindArtistNamed(st.entities, normalizedName) ELSE <<>>
        effectiveArtistId == IF existingArtist # <<>> THEN existingArtist[1].id ELSE artistId
        role == IF isFeatured THEN "featured" ELSE "primary_artist"
        relId == RelId(TrackId(st.key), effectiveArtistId, role)
    IN  [st EXCEPT
           !.entities = IF isNew THEN Append(@, Entity(artistId, name, "artist")) ELSE @,
           !.entityIds = IF isNew THEN @ \cup {artistId} ELSE @,
           !.normalizedArtistNames = IF isNew THEN @ \cup {normalizedName} ELSE @,
           !.primaryArtistIds = @ \cup {artistId, effectiveArtistId},
           !.albumArtistIds = IF ~isFeatured /\ matchesSearchedArtist /\ effectiveArtistId \notin Range(@)
                              THEN Append(@, effectiveArtistId) ELSE @,
           !.relationships = IF HasRelId(@, relId) THEN @
                             ELSE Append(@, Relationship(relId, TrackId(st.key), effectiveArtistId, role)),
           !.nextIsFeatured = credit.feat]

RECURSIVE CreditLoop(_, _, _)
CreditLoop(st, artistCredits, artistName) ==
    IF artistCredits = <<>> THEN st
    ELSE CreditLoop(CreditStep(st, Head(artistCredits), artistName), Tail(artistCredits), artistName)

\* artistCredits.map(credit => fetchArtistAliases(...)): each call runs up to
\* its await before the next one starts
RECURSIVE StartAliasFetches(_, _, _)
StartAliasFetches(table, artistCredits, pending) ==
    IF artistCredits = <<>> THEN [table |-> table, pending |-> pending]
    ELSE LET mbid == Head(artistCredits).artist
             f == fetchArtistAliases(table, mbid, ArtistName(mbid))
         IN  StartAliasFetches(f.table, Tail(artistCredits),
                               IF f.started THEN pending \cup {mbid} ELSE pending)

\* the album entity, "contains" and one "released_on" per album artist
RECURSIVE ReleasedOn(_, _)
ReleasedOn(albumArtistIds, albumId) ==
    IF albumArtistIds = <<>> THEN <<>>
    ELSE <<Relationship(<<"rel", Head(albumArtistIds), albumId, "", "">>,
                        Head(albumArtistIds), albumId, "released_on")>>
         \o ReleasedOn(Tail(albumArtistIds), albumId)

AddAlbum(st) ==
    LET albumId == AlbumId(st.key)
    IN  [st EXCEPT
           !.entities = IF albumId \in st.entityIds THEN @ ELSE Append(@, Entity(albumId, AlbumTitle, "album")),
           !.entityIds = @ \cup {albumId},
           !.relationships = @ \o <<Relationship(<<"rel", albumId, TrackId(st.key), "", "">>,
                                                  albumId, TrackId(st.key), "contains")>>
                               \o ReleasedOn(st.albumArtistIds, albumId)]

\* the alias test and the normalised-name test that pick the id a personnel
\* or work credit is attached to
EffectivePersonnelId(st, table, mbid) ==
    LET personnelId == ArtistId(mbid)
        normalizedName == normalizeArtistName(ArtistName(mbid))
        canonicalMbid == resolveArtistAlias(table, ArtistName(mbid))
    IN  IF canonicalMbid # <<>> /\ canonicalMbid[1] # mbid
        THEN IF ArtistId(canonicalMbid[1]) \in st.entityIds THEN ArtistId(canonicalMbid[1]) ELSE personnelId
        ELSE IF normalizedName \in st.normalizedArtistNames /\ personnelId \notin st.entityIds
             THEN LET existingArtist == FindArtistNamed(st.entities, normalizedName)
                  IN  IF existingArtist # <<>> THEN existingArtist[1].id ELSE personnelId
             ELSE personnelId

\* entities.push of the personnel and work loops
PushPersonnel(st, mbid, effectivePersonnelId) ==
    LET normalizedName == normalizeArtistName(ArtistName(mbid))
    IN  IF effectivePersonnelId \notin st.entityIds /\ normalizedName \notin st.normalizedArtistNames
        THEN [st EXCEPT !.entities = Append(@, Entity(ArtistId(mbid), ArtistName(mbid), "artist")),
                        !.normalizedArtistNames = @ \cup {normalizedName},
                        !.entityIds = @ \cup {ArtistId(mbid)}]
        ELSE st

\* relationships.push without the test on the id
PushRelationshipUnchecked(st, effectivePersonnelId, role) ==
    LET relId == RelId(TrackId(st.key), effectivePersonnelId, role)
    IN  [st EXCEPT !.relationships = Append(@, Relationship(relId, TrackId(st.key), effectivePersonnelId, role))]

PushRelationship(st, effectivePersonnelId, role) ==
    LET relId == RelId(TrackId(st.key), effectivePersonnelId, role)
    IN  IF HasRelId(st.relationships, relId) THEN st
        ELSE [st EXCEPT !.relationships = Append(@, Relationship(relId, TrackId(st.key), effectivePersonnelId, role))]

\* one pass of the personnel loop
PersonnelStep(st, table, rel) ==
    LET effectivePersonnelId == EffectivePersonnelId(st, table, rel.artist)
    IN  IF effectivePersonnelId \in st.primaryArtistIds
        THEN IF rel.role # "primary_artist" THEN PushRelationship(st, effectivePersonnelId, rel.role) ELSE st
        ELSE PushRelationship(PushPersonnel(st, rel.artist, effectivePersonnelId), effectivePersonnelId, rel.role)

RECURSIVE PersonnelLoop(_, _, _)
PersonnelLoop(st, table, relations) ==
    IF relations = <<>> THEN st
    ELSE PersonnelLoop(PersonnelStep(st, table, Head(relations)), table, Tail(relations))

\* one pass of the loop over a work's artist relations
WorkStep(st, table, rel) ==
    LET effectivePersonnelId == EffectivePersonnelId(st, table, rel.artist)
        relId == RelId(TrackId(st.key), effectivePersonnelId, rel.role)
    IN  IF HasRelId(st.relationships, relId) THEN st
        ELSE LET pushed == PushPersonnel(st, rel.artist, effectivePersonnelId)
             IN  [pushed EXCEPT !.relationships =
                     Append(@, Relationship(relId, TrackId(st.key), effectivePersonnelId, rel.role))]

RECURSIVE WorkLoop(_, _, _)
WorkLoop(st, table, relations) ==
    IF relations = <<>> THEN st
    ELSE WorkLoop(WorkStep(st, table, Head(relations)), table, Tail(relations))

\* getTrackCredits of discogs.ts on the credits of the release found: one
\* entity per Discogs artist, one relationship per credit
RECURSIVE DiscogsEntities(_, _)
DiscogsEntities(credits, seenArtists) ==
    IF credits = <<>> THEN <<>>
    ELSE LET artistId == DiscogsArtistId(Head(credits).artist)
         IN  (IF artistId \in seenArtists THEN <<>>
              ELSE <<Entity(artistId, cleanArtistName(DiscogsName(Head(credits).artist)), "artist")>>)
             \o DiscogsEntities(Tail(credits), seenArtists \cup {artistId})

getTrackCredits(credits, trackId) ==
    [entities |-> DiscogsEntities(credits, {}),
     relationships |-> [i \in 1..Len(credits) |->
                           Relationship(<<"rel-discogs", trackId, DiscogsArtistId(credits[i].artist), credits[i].role, "">>,
                                        trackId, DiscogsArtistId(credits[i].artist), credits[i].role)]]

\* the merge of the Discogs entities; existingNames starts as the normalised
\* names of all entities of the graph
RECURSIVE MergeEntities(_, _, _, _)
MergeEntities(st, table, discogsEntities, existingNames) ==
    IF discogsEntities = <<>> THEN st
    ELSE LET entity == Head(discogsEntities)
             normalizedName == normalizeArtistName(entity.name)
             canonicalMbid == resolveArtistAlias(table, entity.name)
         IN  IF canonicalMbid # <<>> /\ ArtistId(canonicalMbid[1]) \in st.entityIds
             THEN MergeEntities(st, table, Tail(discogsEntities), existingNames)
             ELSE IF normalizedName \notin existingNames
                  THEN MergeEntities([st EXCEPT !.entities = Append(@, entity), !.entityIds = @ \cup {entity.id}],
                                     table, Tail(discogsEntities), existingNames \cup {normalizedName})
                  ELSE MergeEntities(st, table, Tail(discogsEntities), existingNames)

\* the relationship as the merge rewrites it before the duplicate test
Remapped(st, table, discogsEntities, rel) ==
    LET trackId == TrackId(st.key)
        found == {i \in 1..Len(discogsEntities) : discogsEntities[i].id = rel.target}
    IN  IF found = {} THEN rel
        ELSE LET discogsEntity == discogsEntities[CHOOSE i \in found : \A j \in found : i <= j]
                 canonicalMbid == resolveArtistAlias(table, discogsEntity.name)
             IN  IF canonicalMbid # <<>>
                 THEN IF ArtistId(canonicalMbid[1]) \in st.entityIds
                      THEN [rel EXCEPT !.target = ArtistId(canonicalMbid[1]),
                                       !.id = <<"rel", trackId, ArtistId(canonicalMbid[1]), rel.role, "discogs">>]
                      ELSE rel
                 ELSE LET existingEntity == FindArtistNamed(st.entities, normalizeArtistName(discogsEntity.name))
                      IN  IF existingEntity # <<>> /\ existingEntity[1].id # rel.target
                          THEN [rel EXCEPT !.target = existingEntity[1].id,
                                           !.id = <<"rel", trackId, existingEntity[1].id, rel.role, "discogs">>]
                          ELSE rel

\* relationships.push of every Discogs relationship, without the test for a
\* duplicate
MergeRelationshipsUnchecked(st, table, discogsEntities, rels) ==
    [st EXCEPT !.relationships =
        @ \o [i \in 1..Len(rels) |->
                 [Remapped(st, table, discogsEntities, rels[i]) EXCEPT !.source = TrackId(st.key)]]]

RECURSIVE MergeRelationships(_, _, _, _)
MergeRelationships(st, table, discogsEntities, rels) ==
    IF rels = <<>> THEN st
    ELSE LET rel == [Remapped(st, table, discogsEntities, Head(rels)) EXCEPT !.source = TrackId(st.key)]
             isDuplicate == \E i \in 1..Len(st.relationships) :
                                /\ st.relationships[i].source = rel.source
                                /\ st.relationships[i].target = rel.target
                                /\ st.relationships[i].role = rel.role
         IN  MergeRelationships(IF isDuplicate THEN st ELSE [st EXCEPT !.relationships = Append(@, rel)],
                                table, discogsEntities, Tail(rels))

MergeDiscogs(st, table, discogsCredits) ==
    IF Len(discogsCredits.entities) > 0
    THEN MergeRelationships(
             MergeEntities(st, table, discogsCredits.entities,
                           {normalizeArtistName(st.entities[i].name) : i \in 1..Len(st.entities)}),
             table, discogsCredits.entities, discogsCredits.relationships)
    ELSE st

(***************************************************************************)
(* buildGraphFromTrack as a state machine: one action per stretch of the    *)
(* function between two awaits, the responses drawn when they arrive.  The  *)
(* alias table and the cache outlive the call.                              *)
(***************************************************************************)
SeqsUpTo(S, n) == UNION {[1..k -> S] : k \in 0..n}

\* what the catalogues answer: the artist credits of a recording (feat: the
\* join phrase after the credit announces a featured artist), its artist
\* relations, the artist relations of its work, its Discogs credits
ArtistCredits == SeqsUpTo([artist : Mbids, feat : BOOLEAN], MaxCredits) \ {<<>>}
PersonnelRelations == SeqsUpTo([artist : Mbids, role : {"producer"}], MaxCredits)
WorkRelations == SeqsUpTo([artist : Mbids, role : {"composer"}], MaxRelations)
DiscogsCredits == SeqsUpTo([artist : DiscogsIds, role : {"producer"}], MaxDiscogsCredits)
TrackKeys == 1..NumTracks

\* the name and role under which each relation of a recording or work is filed
FiledUnder(relations) ==
    {[name |-> ArtistName(relations[i].artist), role |-> relations[i].role] : i \in 1..Len(relations)}

\* the call starts: a cache hit is returned as it is
Begin(key) ==
    /\ build.pc \in {"idle", "returned"}
    /\ build.builds < MaxBuilds
    /\ LET cached == getCachedTrack(localStorage, key, now)
           started == [NoBuild EXCEPT !.key = key, !.builds = build.builds + 1]
       IN  /\ localStorage' = cached.ls
           /\ build' = IF cached.result.null
                       THEN [started EXCEPT !.pc = "search"]
                       ELSE [started EXCEPT !.pc = "returned", !.result = cached.result]
    /\ UNCHANGED <<now, last, recency, fill, limiterVars, fetchVars, entryVars, aliasTable, pathVars>>

\* no recording matches: the empty graph is returned and nothing is cached
RecordingNotFound ==
    /\ build.pc = "search"
    /\ build' = [build EXCEPT !.pc = "returned", !.result = Result(<<>>, <<>>)]
    /\ UNCHANGED <<now, cacheVars, localStorage, limiterVars, fetchVars, entryVars, aliasTable, pathVars>>

\* a search or the recording lookup throws: the call rejects
LookupFailed ==
    /\ build.pc = "search"
    /\ build' = [NoBuild EXCEPT !.builds = build.builds]
    /\ UNCHANGED <<now, cacheVars, localStorage, limiterVars, fetchVars, entryVars, aliasTable, pathVars>>

\* the full recording arrives: track entity, artist-credit loop, and the
\* alias fetches are started
RecordingFetched(artistCredits, artistName) ==
    /\ build.pc = "search"
    /\ LET trackId == TrackId(build.key)
           st == [build EXCEPT !.entities = <<Entity(trackId, TrackTitle, "track")>>,
                               !.entityIds = {trackId}]
           looped == CreditLoop(st, artistCredits, artistName)
           fetches == StartAliasFetches(aliasTable, artistCredits, {})
       IN  /\ build' = [looped EXCEPT !.pc = "aliases", !.nextIsFeatured = FALSE, !.pending = fetches.pending,
                                      !.credited = {artistCredits[i].artist : i \in 1..Len(artistCredits)}]
           /\ aliasTable' = fetches.table
    /\ UNCHANGED <<now, cacheVars, localStorage, limiterVars, fetchVars, entryVars, pathVars>>

\* one of the alias requests is answered
AliasesFetched(mbid) ==
    /\ build.pc = "aliases"
    /\ mbid \in build.pending
    /\ aliasTable' = [aliasTable EXCEPT !.aliasToMbidMap = AddAliases(@, ArtistAliases(mbid), mbid)]
    /\ build' = [build EXCEPT !.pending = @ \ {mbid}]
    /\ UNCHANGED <<now, cacheVars, localStorage, limiterVars, fetchVars, entryVars, pathVars>>

\* one of the alias requests fails; fetchArtistAliases swallows the error
AliasesFailed(mbid) ==
    /\ build.pc = "aliases"
    /\ mbid \in build.pending
    /\ build' = [build EXCEPT !.pending = @ \ {mbid}]
    /\ UNCHANGED <<now, cacheVars, localStorage, limiterVars, fetchVars, entryVars, aliasTable, pathVars>>

\* Promise.all has settled: album from the releases, then the personnel loop
Personnel(withAlbum, relations) ==
    /\ build.pc = "aliases"
    /\ build.pending = {}
    /\ build' = [PersonnelLoop(IF withAlbum THEN AddAlbum(build) ELSE build, aliasTable, relations)
                    EXCEPT !.pc = "works",
                           !.credited = @ \cup {relations[i].artist : i \in 1..Len(relations)},
                           !.filed = @ \cup FiledUnder(relations)]
    /\ UNCHANGED <<now, cacheVars, localStorage, limiterVars, fetchVars, entryVars, aliasTable, pathVars>>

\* the work of a work relation arrives with its artist relations
WorkFetched(relations) ==
    /\ build.pc = "works"
    /\ build' = [WorkLoop(build, aliasTable, relations)
                    EXCEPT !.pc = "discogs",
                           !.credited = @ \cup {relations[i].artist : i \in 1..Len(relations)},
                           !.filed = @ \cup FiledUnder(relations)]
    /\ UNCHANGED <<now, cacheVars, localStorage, limiterVars, fetchVars, entryVars, aliasTable, pathVars>>

\* no work relation, or the work request fails
WorkSkipped ==
    /\ build.pc = "works"
    /\ build' = [build EXCEPT !.pc = "discogs"]
    /\ UNCHANGED <<now, cacheVars, localStorage, limiterVars, fetchVars, entryVars, aliasTable, pathVars>>

\* the Discogs credits arrive and are merged
DiscogsFetched(credits) ==
    /\ build.pc = "discogs"
    /\ build' = [MergeDiscogs(build, aliasTable, getTrackCredits(credits, TrackId(build.key)))
                    EXCEPT !.pc = "images",
                           !.filed = @ \cup {[name |-> cleanArtistName(DiscogsName(credits[i].artist)),
                                              role |-> credits[i].role] : i \in 1..Len(credits)},
                           !.merged = credits]
    /\ UNCHANGED <<now, cacheVars, localStorage, limiterVars, fetchVars, entryVars, aliasTable, pathVars>>

\* Discogs is not configured, or its request fails
DiscogsSkipped ==
    /\ build.pc = "discogs"
    /\ build' = [build EXCEPT !.pc = "images"]
    /\ UNCHANGED <<now, cacheVars, localStorage, limiterVars, fetchVars, entryVars, aliasTable, pathVars>>

\* the image requests have settled: the graph is cached and returned
Finish ==
    /\ build.pc = "images"
    /\ localStorage' = setCachedTrack(localStorage, build.key, build.entities, build.relationships, now).ls
    /\ build' = [build EXCEPT !.pc = "returned", !.result = Result(build.entities, build.relationships),
                              !.merged = <<>>]
    /\ UNCHANGED <<now, last, recency, fill, limiterVars, fetchVars, entryVars, aliasTable, pathVars>>

clearAliasCache ==
    /\ build.pc \in {"idle", "returned"}
    /\ aliasTable # NoAliases
    /\ build.builds < MaxBuilds
    /\ aliasTable' = NoAliases
    /\ UNCHANGED <<now, cacheVars, localStorage, limiterVars, fetchVars, entryVars, build, pathVars>>

InitGraph ==
    /\ localStorage = EmptyStorage
    /\ now = 0
    /\ FreshCache
    /\ FreshLimiter
    /\ FreshFetch
    /\ FreshGraph

NextGraph ==
    \/ \E key \in TrackKeys : Begin(key)
    \/ RecordingNotFound
    \/ LookupFailed
    \/ \E artistCredits \in ArtistCredits : RecordingFetched(artistCredits, ArtistName(artistCredits[1].artist))
    \/ \E mbid \in Mbids : AliasesFetched(mbid)
    \/ \E mbid \in Mbids : AliasesFailed(mbid)
    \/ \E withAlbum \in BOOLEAN, relations \in PersonnelRelations : Personnel(withAlbum, relations)
    \/ \E relations \in WorkRelations : WorkFetched(relations)
    \/ WorkSkipped
    \/ \E credits \in DiscogsCredits : DiscogsFetched(credits)
    \/ DiscogsSkipped
    \/ Finish
    \/ clearAliasCache

SpecGraph == InitGraph /\ [][NextGraph]_vars

ReturnedGraph == build.pc = "returned" /\ ~build.result.null
EntityIdsOf(graph) == {graph.entities[i].id : i \in 1..Len(graph.entities)}

\* C1 (as claimed): in the graph buildGraphFromTrack returns, the source and
\* the target of every relationship are ids of entities of that graph.
C1_RelationshipsInsideGraph ==
    ReturnedGraph =>
       \A i \in 1..Len(build.result.relationships) :
          /\ build.result.relationships[i].source \in EntityIdsOf(build.result)
          /\ build.result.relationships[i].target \in EntityIdsOf(build.result)

\* the artist entities of a graph that stand for the person credited under
\* name and known to the alias table as mbid
EntitiesOfPerson(graph, name, mbid) ==
    {graph.entities[i].id : i \in {j \in 1..Len(graph.entities) :
        /\ graph.entities[j].type = "artist"
        /\ \/ graph.entities[j].id = ArtistId(mbid)
           \/ normalizeForCache(graph.entities[j].name) = normalizeForCache(name)}}

\* the graph a call returns after building it
BuiltGraphReturned == build.pc = "images" /\ build'.pc = "returned"

\* C2 (as claimed): when a call returns the graph it built, for every
\* personnel, work or Discogs credit filed under a name A that the alias
\* table maps to an artist C credited on the track, the graph has a
\* relationship of the credit's role targeting artist-C, and artist-C is the
\* graph's only artist entity for that person.
C2_AliasedCreditsShareOneEntity ==
    [][BuiltGraphReturned =>
          \A f \in build'.filed :
             LET canonicalMbid == resolveArtistAlias(aliasTable', f.name)
             IN  (canonicalMbid # <<>> /\ canonicalMbid[1] \in build'.credited) =>
                    /\ \E i \in 1..Len(build'.result.relationships) :
                          /\ build'.result.relationships[i].target = ArtistId(canonicalMbid[1])
                          /\ build'.result.relationships[i].role = f.role
                    /\ EntitiesOfPerson(build'.result, f.name, canonicalMbid[1]) = {ArtistId(canonicalMbid[1])}]_vars

C13_MergeTwiceIsMergeOnce ==
    (build.pc = "images" /\ build.merged # <<>>) =>
       LET again == MergeDiscogs(build, aliasTable, getTrackCredits(build.merged, TrackId(build.key)))
       IN  /\ again.entities = build.entities
           /\ again.relationships = build.relationships

\* a Discogs credit has been merged and attached to an artist the graph
\* already had, next to a MusicBrainz credit of another artist
C13_Witness ==
    /\ build.pc = "images"
    /\ build.merged # <<>>
    /\ \E i \in 1..Len(build.relationships) : build.relationships[i].id[5] = "discogs"
    /\ Cardinality({build.entities[i].id : i \in 1..Len(build.entities)}) >= 3

\* the entity a personnel or work credit of artist mbid is attached to when
\* the layers are tried in the order MBID, normalised name, alias table, and
\* the first that matches decides
LayeredId(st, table, mbid) ==
    LET personnelId == ArtistId(mbid)
        existingArtist == FindArtistNamed(st.entities, normalizeArtistName(ArtistName(mbid)))
        canonicalMbid == resolveArtistAlias(table, ArtistName(mbid))
    IN  IF personnelId \in st.entityIds THEN personnelId
        ELSE IF existingArtist # <<>> THEN existingArtist[1].id
        ELSE IF canonicalMbid # <<>> /\ ArtistId(canonicalMbid[1]) \in st.entityIds
             THEN ArtistId(canonicalMbid[1])
        ELSE personnelId

\* after the pass over rel that led from st to next, the credit is attached
\* to the entity the layers name, and to no other
AttachedByLayers(st, next, table, rel) ==
    LET layered == LayeredId(st, table, rel.artist)
    IN  /\ \E i \in 1..Len(next.relationships) :
              next.relationships[i].target = layered /\ next.relationships[i].role = rel.role
        /\ \A i \in (Len(st.relationships) + 1)..Len(next.relationships) :
              next.relationships[i].target = layered

RECURSIVE PersonnelFollowsLayers(_, _, _)
PersonnelFollowsLayers(st, table, relations) ==
    \/ relations = <<>>
    \/ LET next == PersonnelStep(st, table, Head(relations))
       IN  /\ AttachedByLayers(st, next, table, Head(relations))
           /\ PersonnelFollowsLayers(next, table, Tail(relations))

RECURSIVE WorkFollowsLayers(_, _, _)
WorkFollowsLayers(st, table, relations) ==
    \/ relations = <<>>
    \/ LET next == WorkStep(st, table, Head(relations))
       IN  /\ AttachedByLayers(st, next, table, Head(relations))
           /\ WorkFollowsLayers(next, table, Tail(relations))

\* C14 (as claimed): every personnel credit and every work credit that
\* buildGraphFromTrack processes is attached to the entity found by trying
\* the MBID, then the normalised name, then the alias table, the first
\* layer that matches deciding.
C14_LayersInOrder ==
    [][/\ (build.pc = "aliases" /\ build'.pc = "works") =>
             \A withAlbum \in BOOLEAN, relations \in PersonnelRelations :
                Personnel(withAlbum, relations) =>
                   PersonnelFollowsLayers(IF withAlbum THEN AddAlbum(build) ELSE build, aliasTable, relations)
       /\ (build.pc = "works" /\ build'.pc = "discogs") =>
             \A relations \in WorkRelations :
                WorkFetched(relations) => WorkFollowsLayers(build, aliasTable, relations)]_vars

(***************************************************************************)
(* Role mapping.  Relation types, attributes and Discogs roles are strings; *)
(* toLowerCase and includes are computed character by character.            *)
(***************************************************************************)
\* the closed role set, RoleType of types/music.ts
RoleType ==
    {"primary_artist", "featured", "remixer",
     "producer", "executive_producer", "co_producer", "vocal_producer", "additional_producer",
     "songwriter", "composer", "lyricist", "arranger",
     "engineer", "mixing", "mastering", "recording", "programming",
     "vocals", "background_vocals", "choir",
     "guitar", "bass", "violin", "cello", "strings",
     "drums", "percussion",
     "keyboards", "piano", "organ", "synthesizer",
     "saxophone", "trumpet", "horns", "flute", "woodwinds",
     "harmonica", "turntables", "other_instrument",
     "member_of", "signed_to", "released_on", "contains"}

\* String.prototype.toLowerCase and String.prototype.includes on strings
RECURSIVE LowerCased(_)
LowerCased(str) == IF str = "" THEN "" ELSE ToLowerChar(Head(str)) \o LowerCased(Tail(str))
Contains(str, part) ==
    \/ part = ""
    \/ \E i \in 1..(Len(str) - Len(part) + 1) : SubSeq(str, i, i + Len(part) - 1) = part
ContainsAny(str, parts) == \E part \in parts : Contains(str, part)

\* the typeMap object of mapMBRelationType
typeMap ==
    "vocal" :> "vocals" @@ "lead vocals" :> "vocals" @@ "background vocals" :> "background_vocals" @@
    "backing vocals" :> "background_vocals" @@ "guest" :> "featured" @@ "choir" :> "choir" @@
    "chorus" :> "choir" @@ "guitar" :> "guitar" @@ "electric guitar" :> "guitar" @@
    "acoustic guitar" :> "guitar" @@ "rhythm guitar" :> "guitar" @@ "lead guitar" :> "guitar" @@
    "classical guitar" :> "guitar" @@ "12-string guitar" :> "guitar" @@ "bass" :> "bass" @@
    "bass guitar" :> "bass" @@ "electric bass guitar" :> "bass" @@ "double bass" :> "bass" @@
    "upright bass" :> "bass" @@ "fretless bass" :> "bass" @@ "drums" :> "drums" @@
    "drums (drum set)" :> "drums" @@ "drum machine" :> "drums" @@ "percussion" :> "percussion" @@
    "congas" :> "percussion" @@ "bongos" :> "percussion" @@ "tambourine" :> "percussion" @@
    "shaker" :> "percussion" @@ "timpani" :> "percussion" @@ "piano" :> "piano" @@
    "grand piano" :> "piano" @@ "electric piano" :> "piano" @@ "rhodes" :> "piano" @@
    "wurlitzer" :> "piano" @@ "clavinet" :> "keyboards" @@ "keyboard" :> "keyboards" @@
    "keyboards" :> "keyboards" @@ "synthesizer" :> "synthesizer" @@ "synth" :> "synthesizer" @@
    "analog synthesizer" :> "synthesizer" @@ "digital synthesizer" :> "synthesizer" @@ "modular synthesizer" :> "synthesizer" @@
    "organ" :> "organ" @@ "hammond organ" :> "organ" @@ "pipe organ" :> "organ" @@
    "violin" :> "violin" @@ "viola" :> "strings" @@ "cello" :> "cello" @@
    "strings" :> "strings" @@ "string section" :> "strings" @@ "orchestra" :> "strings" @@
    "orchestration" :> "arranger" @@ "trumpet" :> "trumpet" @@ "trombone" :> "horns" @@
    "french horn" :> "horns" @@ "tuba" :> "horns" @@ "brass" :> "horns" @@
    "horn section" :> "horns" @@ "horns" :> "horns" @@ "saxophone" :> "saxophone" @@
    "alto saxophone" :> "saxophone" @@ "tenor saxophone" :> "saxophone" @@ "baritone saxophone" :> "saxophone" @@
    "flute" :> "flute" @@ "clarinet" :> "woodwinds" @@ "oboe" :> "woodwinds" @@
    "bassoon" :> "woodwinds" @@ "woodwinds" :> "woodwinds" @@ "harmonica" :> "harmonica" @@
    "accordion" :> "keyboards" @@ "banjo" :> "guitar" @@ "mandolin" :> "guitar" @@
    "ukulele" :> "guitar" @@ "harp" :> "strings" @@ "turntables" :> "turntables" @@
    "dj" :> "turntables" @@ "scratching" :> "turntables" @@ "mix" :> "mixing" @@
    "mixing" :> "mixing" @@ "mastering" :> "mastering" @@ "recording" :> "recording" @@
    "engineer" :> "engineer" @@ "audio engineer" :> "engineer" @@ "sound engineer" :> "engineer" @@
    "programming" :> "programming" @@ "drum programming" :> "programming" @@ "synth programming" :> "programming" @@
    "writer" :> "songwriter" @@ "songwriter" :> "songwriter" @@ "composer" :> "composer" @@
    "lyricist" :> "lyricist" @@ "arranger" :> "arranger" @@ "music by" :> "composer" @@
    "lyrics by" :> "lyricist" @@ "arranged by" :> "arranger" @@ "remix" :> "remixer" @@
    "remixer" :> "remixer" @@ "remixed by" :> "remixer" @@ "member of band" :> "member_of" @@
    "is person" :> "member_of"

\* typeMap[lowerType]: the object literal inherits from Object.prototype, so
\* the lower-case names of its properties are found too, with a value that is
\* not a role
ObjectPrototype == {"constructor", "__proto__"}
TypeMapLookup(lowerType) ==
    IF lowerType \in DOMAIN typeMap THEN <<typeMap[lowerType]>>
    ELSE IF lowerType \in ObjectPrototype THEN <<"[object]">>
    ELSE <<>>

\* a chain of `if (test) return role`: the role of the first test that
\* holds, as a one-element sequence, << >> if none holds
FirstRule(rules) ==
    LET hits == {i \in 1..Len(rules) : rules[i].hit}
    IN  IF hits = {} THEN <<>> ELSE <<rules[CHOOSE i \in hits : \A j \in hits : i <= j].role>>

\* one pass of the loop over the attributes of an "instrument" relation:
\* the role the attribute names, << >> if it names none
InstrumentOf(attr) ==
    FirstRule(<<[hit |-> Contains(attr, "drum"), role |-> "drums"],
                [hit |-> Contains(attr, "percuss") \/ attr \in {"congas", "bongos", "tambourine", "shaker"}, role |-> "percussion"],
                [hit |-> Contains(attr, "guitar") \/ attr \in {"banjo", "mandolin", "ukulele"}, role |-> "guitar"],
                [hit |-> Contains(attr, "bass"), role |-> "bass"],
                [hit |-> Contains(attr, "piano") \/ attr \in {"rhodes", "wurlitzer"}, role |-> "piano"],
                [hit |-> Contains(attr, "synth"), role |-> "synthesizer"],
                [hit |-> Contains(attr, "organ"), role |-> "organ"],
                [hit |-> Contains(attr, "keyboard") \/ attr = "clavinet", role |-> "keyboards"],
                [hit |-> Contains(attr, "violin") \/ attr = "fiddle", role |-> "violin"],
                [hit |-> Contains(attr, "cello"), role |-> "cello"],
                [hit |-> Contains(attr, "string") \/ attr \in {"viola", "orchestra", "harp"}, role |-> "strings"],
                [hit |-> Contains(attr, "trumpet"), role |-> "trumpet"],
                [hit |-> Contains(attr, "sax"), role |-> "saxophone"],
                [hit |-> ContainsAny(attr, {"horn", "trombone", "tuba"}) \/ attr = "brass", role |-> "horns"],
                [hit |-> Contains(attr, "flute"), role |-> "flute"],
                [hit |-> ContainsAny(attr, {"clarinet", "oboe", "bassoon"}) \/ attr = "woodwinds", role |-> "woodwinds"],
                [hit |-> Contains(attr, "harmonica"), role |-> "harmonica"],
                [hit |-> ContainsAny(attr, {"turntable", "scratch"}) \/ attr = "dj", role |-> "turntables"]>>)

RECURSIVE FirstInstrument(_)
FirstInstrument(attrs) ==
    IF attrs = <<>> THEN "other_instrument"
    ELSE IF InstrumentOf(Head(attrs)) # <<>> THEN InstrumentOf(Head(attrs))[1]
    ELSE FirstInstrument(Tail(attrs))

\* the partial matches on the type, tried when typeMap has no entry
PartialMatch(lowerType) ==
    FirstRule(<<[hit |-> Contains(lowerType, "remix"), role |-> "remixer"],
                [hit |-> ContainsAny(lowerType, {"background vocal", "backing vocal"}), role |-> "background_vocals"],
                [hit |-> ContainsAny(lowerType, {"vocal", "voice", "singer"}), role |-> "vocals"],
                [hit |-> ContainsAny(lowerType, {"choir", "chorus"}), role |-> "choir"],
                [hit |-> ContainsAny(lowerType, {"guitar", "banjo", "mandolin"}), role |-> "guitar"],
                [hit |-> Contains(lowerType, "bass"), role |-> "bass"],
                [hit |-> Contains(lowerType, "drum"), role |-> "drums"],
                [hit |-> Contains(lowerType, "percuss"), role |-> "percussion"],
                [hit |-> Contains(lowerType, "synth"), role |-> "synthesizer"],
                [hit |-> ContainsAny(lowerType, {"piano", "rhodes", "wurlitzer"}), role |-> "piano"],
                [hit |-> Contains(lowerType, "organ"), role |-> "organ"],
                [hit |-> Contains(lowerType, "keyboard"), role |-> "keyboards"],
                [hit |-> ContainsAny(lowerType, {"violin", "fiddle"}), role |-> "violin"],
                [hit |-> Contains(lowerType, "cello"), role |-> "cello"],
                [hit |-> ContainsAny(lowerType, {"string", "orchestra"}), role |-> "strings"],
                [hit |-> Contains(lowerType, "trumpet"), role |-> "trumpet"],
                [hit |-> Contains(lowerType, "sax"), role |-> "saxophone"],
                [hit |-> Contains(lowerType, "flute"), role |-> "flute"],
                [hit |-> ContainsAny(lowerType, {"horn", "brass", "trombone", "tuba"}), role |-> "horns"],
                [hit |-> ContainsAny(lowerType, {"clarinet", "oboe", "bassoon", "woodwind"}), role |-> "woodwinds"],
                [hit |-> Contains(lowerType, "harmonica"), role |-> "harmonica"],
                [hit |-> ContainsAny(lowerType, {"turntable", "dj", "scratch"}), role |-> "turntables"],
                [hit |-> Contains(lowerType, "programm"), role |-> "programming"],
                [hit |-> Contains(lowerType, "master"), role |-> "mastering"],
                [hit |-> Contains(lowerType, "mix"), role |-> "mixing"],
                [hit |-> Contains(lowerType, "record"), role |-> "recording"],
                [hit |-> Contains(lowerType, "engineer"), role |-> "engineer"],
                [hit |-> Contains(lowerType, "arrang"), role |-> "arranger"],
                [hit |-> Contains(lowerType, "lyric"), role |-> "lyricist"],
                [hit |-> Contains(lowerType, "compos"), role |-> "composer"]>>)

\* mapMBRelationType: the role, and whether the type was logged as unknown
mapMBRelationType(mbType, attributes) ==
    LET lowerType == LowerCased(mbType)
        attrs == [i \in 1..Len(attributes) |-> LowerCased(attributes[i])]
        Found(role) == [role |-> role, logged |-> FALSE]
    IN  IF lowerType \in {"instrument", "performer"} THEN Found(FirstInstrument(attrs))
        ELSE IF lowerType = "producer"
        THEN IF "executive" \in Range(attrs) THEN Found("executive_producer")
             ELSE IF "co" \in Range(attrs) THEN Found("co_producer")
             ELSE IF \E i \in 1..Len(attrs) : Contains(attrs[i], "vocal") THEN Found("vocal_producer")
             ELSE IF "additional" \in Range(attrs) THEN Found("additional_producer")
             ELSE Found("producer")
        ELSE IF lowerType = "vocal"
        THEN IF \E i \in 1..Len(attrs) : ContainsAny(attrs[i], {"background", "backing"})
             THEN Found("background_vocals")
             ELSE IF \E i \in 1..Len(attrs) : ContainsAny(attrs[i], {"choir", "chorus"}) THEN Found("choir")
             ELSE Found("vocals")
        ELSE IF TypeMapLookup(lowerType) # <<>> THEN Found(TypeMapLookup(lowerType)[1])
        ELSE IF PartialMatch(lowerType) # <<>> THEN Found(PartialMatch(lowerType)[1])
        ELSE [role |-> "other_instrument", logged |-> TRUE]

\* the tests of mapDiscogsRole of discogs.ts on the lower-cased role
DiscogsRule(lowerRole) ==
        FirstRule(<<[hit |-> Contains(lowerRole, "executive producer"), role |-> "executive_producer"],
                    [hit |-> Contains(lowerRole, "co-producer"), role |-> "co_producer"],
                    [hit |-> Contains(lowerRole, "vocal producer"), role |-> "vocal_producer"],
                    [hit |-> Contains(lowerRole, "additional producer"), role |-> "additional_producer"],
                    [hit |-> ContainsAny(lowerRole, {"producer", "produced by"}), role |-> "producer"],
                    [hit |-> ContainsAny(lowerRole, {"written by", "written-by"}), role |-> "songwriter"],
                    [hit |-> ContainsAny(lowerRole, {"lyrics by", "lyrics"}), role |-> "songwriter"],
                    [hit |-> ContainsAny(lowerRole, {"music by", "composed by"}), role |-> "songwriter"],
                    [hit |-> ContainsAny(lowerRole, {"songwriter", "composer"}), role |-> "songwriter"],
                    [hit |-> ContainsAny(lowerRole, {"mixed by", "mixing"}), role |-> "engineer"],
                    [hit |-> ContainsAny(lowerRole, {"mastered by", "mastering"}), role |-> "engineer"],
                    [hit |-> ContainsAny(lowerRole, {"recorded by", "recording"}), role |-> "engineer"],
                    [hit |-> Contains(lowerRole, "engineer"), role |-> "engineer"],
                    [hit |-> ContainsAny(lowerRole, {"vocal", "voice"}), role |-> "vocals"],
                    [hit |-> ContainsAny(lowerRole, {"backing vocal", "background vocal"}), role |-> "vocals"],
                    [hit |-> ContainsAny(lowerRole, {"featuring", "feat"}), role |-> "featured"],
                    [hit |-> Contains(lowerRole, "guitar"), role |-> "guitar"],
                    [hit |-> Contains(lowerRole, "bass"), role |-> "bass"],
                    [hit |-> ContainsAny(lowerRole, {"drum", "percussion"}), role |-> "drums"],
                    [hit |-> ContainsAny(lowerRole, {"keyboard", "piano", "synth"}), role |-> "keyboards"]>>)

\* mapDiscogsRole: a role that passes no test becomes "featured"; nothing is
\* logged
mapDiscogsRole(role) ==
    LET rule == DiscogsRule(LowerCased(role))
    IN  IF rule = <<>> THEN "featured" ELSE rule[1]

\* whether mapMBRelationType has a branch, a table entry or a partial match
\* for the type
RecognizedType(mbType) ==
    LET lowerType == LowerCased(mbType)
    IN  \/ lowerType \in {"instrument", "performer", "producer", "vocal"}
        \/ lowerType \in DOMAIN typeMap
        \/ PartialMatch(lowerType) # <<>>

\* the relation types, attribute lists and Discogs roles the sources send
MBTypes ==
    {"producer", "Producer", "instrument", "vocal", "Electric Guitar", "lead singer", "mix", "Mixed By",
     "theremin", "liner notes", "constructor", "composer"}
MBAttributes == SeqsUpTo({"co", "Harp", "kazoo", "background"}, MaxAttributes)
DiscogsRoles ==
    {"Producer", "Co-producer", "Written-By", "Mixed By", "Drums", "Harp", "Artwork", "Featuring",
     "Lead Vocals", "Trumpet"}

MapMBRelationType(mbType, attributes) ==
    /\ probe.op = "none"
    /\ probe' = [op |-> "mapMBRelationType", type |-> mbType, attributes |-> attributes,
                 recognized |-> RecognizedType(mbType),
                 role |-> mapMBRelationType(mbType, attributes).role,
                 logged |-> mapMBRelationType(mbType, attributes).logged]
    /\ UNCHANGED <<now, cacheVars, limiterVars, fetchVars, graphVars, assemblies, pathVars>>

MapDiscogsRole(role) ==
    /\ probe.op = "none"
    /\ probe' = [op |-> "mapDiscogsRole", type |-> role, attributes |-> <<>>,
                 recognized |-> DiscogsRule(LowerCased(role)) # <<>>,
                 role |-> mapDiscogsRole(role),
                 logged |-> FALSE]
    /\ UNCHANGED <<now, cacheVars, limiterVars, fetchVars, graphVars, assemblies, pathVars>>

\* instruments as MusicBrainz names them, in the attribute list of an
\* "instrument" or "performer" relation or as a relation type of their own
Instruments == {"trumpet", "bass guitar", "Electric Guitar", "drums", "accordion", "viola", "kazoo"}

\* mapMBRelationType for an instrument-shaped relation, next to its answer
\* for the relation type that is the instrument's name
MapInstrument(mbType, instrument) ==
    /\ probe.op = "none"
    /\ probe' = [op |-> "mapInstrument", type |-> mbType, attributes |-> <<instrument>>,
                 role |-> mapMBRelationType(mbType, <<instrument>>).role,
                 asType |-> mapMBRelationType(instrument, <<>>).role]
    /\ UNCHANGED <<now, cacheVars, limiterVars, fetchVars, graphVars, assemblies, pathVars>>

InitRoles ==
    /\ localStorage = EmptyStorage
    /\ now = 0
    /\ FreshCache
    /\ FreshLimiter
    /\ FreshFetch
    /\ FreshGraph

NextRoles ==
    \/ \E mbType \in MBTypes, attributes \in MBAttributes : MapMBRelationType(mbType, attributes)
    \/ \E role \in DiscogsRoles : MapDiscogsRole(role)
    \/ \E mbType \in {"instrument", "performer"}, instrument \in Instruments : MapInstrument(mbType, instrument)

SpecRoles == InitRoles /\ [][NextRoles]_vars

\* C18 (as claimed): whatever the relation type and attributes, the mapping
\* of either source answers with a role of RoleType; a type that no branch,
\* table entry or test recognizes is answered with other_instrument and is
\* logged.
C18_RoleMappingTotal ==
    probe.op \in {"mapMBRelationType", "mapDiscogsRole"} =>
       /\ probe.role \in RoleType
       /\ ~probe.recognized => (probe.role = "other_instrument" /\ probe.logged)

\* C39: for an instrument-shaped relation (type instrument or performer) the
\* role is the one the instrument named in the attribute list stands for,
\* the same role mapMBRelationType gives to a relation whose type is that
\* instrument name.
C39_AttributeRoleIsTypeRole ==
    probe.op = "mapInstrument" => probe.role = probe.asType


(***************************************************************************)
(* The other graph-producing entry points of musicbrainz.ts:                *)
(* getArtistRelations, getRecordingCredits and expandTrack.  Each is one    *)
(* request and one pass over the answer; probe keeps the last result and    *)
(* the relationships returned so far.                                       *)
(***************************************************************************)
EntryArtists == 1..NumEntryArtists
RelationTypes == {"guitar", "electric guitar"}
EntryCredits == SeqsUpTo([artist : EntryArtists, feat : BOOLEAN], MaxEntryCredits)
EntryRelations == SeqsUpTo([artist : EntryArtists, type : RelationTypes], MaxEntryRelations)

\* `rel-${relationships.length}`
IndexRelId(relationships) == <<"rel", Len(relationships)>>

NoGraph == [entities |-> <<>>, relationships |-> <<>>, entityIds |-> {}]

\* entities.push unless the id is in entityIds
AddEntity(g, id, name, type) ==
    IF id \in g.entityIds THEN g
    ELSE [g EXCEPT !.entities = Append(@, Entity(id, name, type)), !.entityIds = @ \cup {id}]

AddRelationship(g, id, source, target, role) ==
    [g EXCEPT !.relationships = Append(@, Relationship(id, source, target, role))]

\* getArtistRelations: an artist relation is taken only when it brings a new
\* artist
RECURSIVE ArtistRelationsLoop(_, _, _)
ArtistRelationsLoop(g, artistId, relations) ==
    IF relations = <<>> THEN g
    ELSE LET rel == Head(relations)
             relId == ArtistId(rel.artist)
         IN  ArtistRelationsLoop(
                 IF relId \in g.entityIds THEN g
                 ELSE AddRelationship(AddEntity(g, relId, ArtistName(rel.artist), "artist"),
                                      IndexRelId(g.relationships), ArtistId(artistId), relId,
                                      mapMBRelationType(rel.type, <<>>).role),
                 artistId, Tail(relations))

getArtistRelations(artistId, relations) ==
    ArtistRelationsLoop(AddEntity(NoGraph, ArtistId(artistId), ArtistName(artistId), "artist"),
                        artistId, relations)

\* getRecordingCredits: one relationship per artist credit and per artist
\* relation
RECURSIVE RecordingCreditsLoop(_, _, _)
RecordingCreditsLoop(g, recordingId, artistCredits) ==
    IF artistCredits = <<>> THEN g
    ELSE LET artistId == ArtistId(Head(artistCredits).artist)
             pushed == AddEntity(g, artistId, ArtistName(Head(artistCredits).artist), "artist")
         IN  RecordingCreditsLoop(
                 AddRelationship(pushed, IndexRelId(pushed.relationships), TrackId(recordingId), artistId,
                                 "primary_artist"),
                 recordingId, Tail(artistCredits))

RECURSIVE RecordingRelationsLoop(_, _, _)
RecordingRelationsLoop(g, recordingId, relations) ==
    IF relations = <<>> THEN g
    ELSE LET artistId == ArtistId(Head(relations).artist)
             pushed == AddEntity(g, artistId, ArtistName(Head(relations).artist), "artist")
         IN  RecordingRelationsLoop(
                 AddRelationship(pushed, IndexRelId(pushed.relationships), TrackId(recordingId), artistId,
                                 mapMBRelationType(Head(relations).type, <<>>).role),
                 recordingId, Tail(relations))

getRecordingCredits(recordingId, artistCredits, relations) ==
    RecordingRelationsLoop(
        RecordingCreditsLoop(AddEntity(NoGraph, TrackId(recordingId), TrackTitle, "track"),
                             recordingId, artistCredits),
        recordingId, relations)

\* expandTrack: the track itself is not among the entities returned; the id
\* of a relation's relationship is built from the relation's type
RECURSIVE ExpandCreditsLoop(_, _, _, _)
ExpandCreditsLoop(g, trackEntityId, artistCredits, isFeatured) ==
    IF artistCredits = <<>> THEN g
    ELSE LET artistId == ArtistId(Head(artistCredits).artist)
             role == IF isFeatured THEN "featured" ELSE "primary_artist"
             pushed == AddEntity(g, artistId, ArtistName(Head(artistCredits).artist), "artist")
         IN  ExpandCreditsLoop(
                 AddRelationship(pushed, RelId(trackEntityId, artistId, role), trackEntityId, artistId, role),
                 trackEntityId, Tail(artistCredits), Head(artistCredits).feat)

RECURSIVE ExpandRelationsLoop(_, _, _)
ExpandRelationsLoop(g, trackEntityId, relations) ==
    IF relations = <<>> THEN g
    ELSE LET artistId == ArtistId(Head(relations).artist)
             pushed == AddEntity(g, artistId, ArtistName(Head(relations).artist), "artist")
         IN  ExpandRelationsLoop(
                 AddRelationship(pushed, RelId(trackEntityId, artistId, Head(relations).type), trackEntityId,
                                 artistId, mapMBRelationType(Head(relations).type, <<>>).role),
                 trackEntityId, Tail(relations))

expandTrack(trackEntityId, artistCredits, relations) ==
    ExpandRelationsLoop(ExpandCreditsLoop(NoGraph, trackEntityId, artistCredits, FALSE),
                        trackEntityId, relations)

\* an entry point returns: its result is kept, its relationships are added
\* to those returned so far
EntryReturns(op, g) ==
    /\ probe.op \in {"none", "getArtistRelations", "getRecordingCredits", "expandTrack"}
    /\ probe.op # "none" => probe.calls < MaxEntryCalls
    /\ probe' = [op |-> op,
                 calls |-> IF probe.op = "none" THEN 1 ELSE probe.calls + 1,
                 result |-> Result(g.entities, g.relationships),
                 returned |-> (IF probe.op = "none" THEN {} ELSE probe.returned) \cup Range(g.relationships)]
    /\ UNCHANGED <<now, cacheVars, limiterVars, fetchVars, graphVars, assemblies, pathVars>>

GetArtistRelations(artistId, relations) ==
    EntryReturns("getArtistRelations", getArtistRelations(artistId, relations))

GetRecordingCredits(recordingId, artistCredits, relations) ==
    EntryReturns("getRecordingCredits", getRecordingCredits(recordingId, artistCredits, relations))

ExpandTrack(recordingId, artistCredits, relations) ==
    EntryReturns("expandTrack", expandTrack(TrackId(recordingId), artistCredits, relations))

InitEntry ==
    /\ localStorage = EmptyStorage
    /\ now = 0
    /\ FreshCache
    /\ FreshLimiter
    /\ FreshFetch
    /\ FreshGraph

NextEntry ==
    \/ \E artistId \in EntryArtists, relations \in EntryRelations : GetArtistRelations(artistId, relations)
    \/ \E recordingId \in TrackKeys, artistCredits \in EntryCredits, relations \in EntryRelations :
          GetRecordingCredits(recordingId, artistCredits, relations)
    \/ \E recordingId \in TrackKeys, artistCredits \in EntryCredits, relations \in EntryRelations :
          ExpandTrack(recordingId, artistCredits, relations)

SpecEntry == InitEntry /\ [][NextEntry]_vars

\* C12 (as claimed): among the relationships the entry points have returned,
\* two with the same source, target and role have the same id, and two with
\* the same id have the same source, target and role.
C12_IdFromTriple ==
    probe.op \in {"getArtistRelations", "getRecordingCredits", "expandTrack"} =>
       \A r1, r2 \in probe.returned :
          (r1.id = r2.id) <=> (r1.source = r2.source /\ r1.target = r2.target /\ r1.role = r2.role)

(***************************************************************************)
(* Concurrent buildGraphFromTrack calls and the alias fetches.  Each call   *)
(* is followed from the artist-credit loop to the first personnel or work   *)
(* relation; the alias table is shared by the calls.                        *)
(***************************************************************************)
\* the artist credits of the recordings the concurrent calls look up
AssemblyCredits == {c \in ArtistCredits : \A i \in 1..Len(c) : ~c[i].feat}

\* the recording of call a has arrived: artistCredits.map(fetchArtistAliases),
\* each fetch running up to its await; Promise.all awaits the fetches that
\* sent a request
AssemblyStarts(a, artistCredits) ==
    /\ assemblies.calls[a].pc \in {"idle", "relations"}
    /\ assemblies.runs < MaxAssemblyRuns
    /\ LET fetches == StartAliasFetches(aliasTable, artistCredits, {})
       IN  /\ aliasTable' = fetches.table
           /\ assemblies' =
                 [assemblies EXCEPT
                    !.calls[a] = [pc |-> "aliases",
                                  credited |-> {artistCredits[i].artist : i \in 1..Len(artistCredits)},
                                  pending |-> fetches.pending],
                    !.inflight = @ \cup {<<a, m>> : m \in fetches.pending},
                    !.issued = [m \in DOMAIN @ |-> IF m \in fetches.pending THEN @[m] + 1 ELSE @[m]],
                    !.runs = @ + 1]
    /\ UNCHANGED <<now, cacheVars, limiterVars, fetchVars, build, probe, pathVars>>

\* the alias request call a sent for mbid is answered, or fails and the
\* error is swallowed
AliasRequestSettles(a, mbid, ok) ==
    /\ <<a, mbid>> \in assemblies.inflight
    /\ aliasTable' = IF ok THEN [aliasTable EXCEPT !.aliasToMbidMap = AddAliases(@, ArtistAliases(mbid), mbid)]
                     ELSE aliasTable
    /\ assemblies' = [assemblies EXCEPT !.inflight = @ \ {<<a, mbid>>},
                                        !.calls[a].pending = @ \ {mbid}]
    /\ UNCHANGED <<now, cacheVars, limiterVars, fetchVars, build, probe, pathVars>>

\* Promise.all of call a has settled: its first personnel or work relation
\* is processed
RelationsProcessed(a) ==
    /\ assemblies.calls[a].pc = "aliases"
    /\ assemblies.calls[a].pending = {}
    /\ assemblies' = [assemblies EXCEPT !.calls[a].pc = "relations"]
    /\ UNCHANGED <<now, cacheVars, limiterVars, fetchVars, graphVars, probe, pathVars>>

\* clearAliasCache, called while calls may be under way
AliasCacheCleared ==
    /\ assemblies.clears < MaxClears
    /\ aliasTable # NoAliases
    /\ aliasTable' = NoAliases
    /\ assemblies' = [assemblies EXCEPT !.issued = [m \in DOMAIN @ |-> 0], !.clears = @ + 1]
    /\ UNCHANGED <<now, cacheVars, limiterVars, fetchVars, build, probe, pathVars>>

InitAlias ==
    /\ localStorage = EmptyStorage
    /\ now = 0
    /\ FreshCache
    /\ FreshLimiter
    /\ FreshFetch
    /\ FreshGraph

NextAlias ==
    \/ \E a \in Assemblies, artistCredits \in AssemblyCredits : AssemblyStarts(a, artistCredits)
    \/ \E a \in Assemblies, mbid \in Mbids, ok \in BOOLEAN : AliasRequestSettles(a, mbid, ok)
    \/ \E a \in Assemblies : RelationsProcessed(a)
    \/ AliasCacheCleared

SpecAlias == InitAlias /\ [][NextAlias]_vars

\* C15 (as claimed): when a call processes its first personnel or work
\* relation, every artist credited on its recording has been fetched and no
\* alias request for that artist is still in flight, whichever call sent it.
C15_AliasesKnownBeforeRelations ==
    [][\A a \in Assemblies :
          (assemblies.calls[a].pc = "aliases" /\ assemblies'.calls[a].pc = "relations") =>
             \A m \in assemblies.calls[a].credited :
                /\ m \in aliasTable.fetchedAliases
                /\ \A b \in Assemblies : <<b, m>> \notin assemblies.inflight]_vars

\* C16: since the module was loaded or the alias cache was last cleared, at
\* most one alias request has been sent for any MBID.
C16_OneAliasRequestPerArtist ==
    \A m \in Mbids : assemblies.issued[m] <= 1

\* two calls that credit the same artist are under way at the same time, and
\* the request for that artist has been sent
C16_Witness ==
    /\ \A a \in Assemblies : assemblies.calls[a].pc = "aliases"
    /\ \E m \in Mbids :
          /\ \A a \in Assemblies : m \in assemblies.calls[a].credited
          /\ assemblies.issued[m] = 1
          /\ \E a \in Assemblies : <<a, m>> \in assemblies.inflight

(***************************************************************************)
(* getTrackCredits of discogs.ts on the release found: the track is looked  *)
(* up in the tracklist, its own credits are taken, and the release-level    *)
(* credits are filtered by their track positions.                           *)
(***************************************************************************)
\* String.prototype.split(',') and String.prototype.trim on strings
RECURSIVE SplitOnComma(_)
SplitOnComma(str) ==
    LET commas == {i \in 1..Len(str) : SubSeq(str, i, i) = ","}
    IN  IF commas = {} THEN <<str>>
        ELSE LET first == CHOOSE i \in commas : \A j \in commas : i <= j
             IN  <<SubSeq(str, 1, first - 1)>> \o SplitOnComma(SubSeq(str, first + 1, Len(str)))

RECURSIVE Trimmed(_)
Trimmed(str) ==
    IF str = "" THEN ""
    ELSE IF IsSpace(SubSeq(str, 1, 1)) THEN Trimmed(SubSeq(str, 2, Len(str)))
    ELSE IF IsSpace(SubSeq(str, Len(str), Len(str))) THEN Trimmed(SubSeq(str, 1, Len(str) - 1))
    ELSE str

\* release.tracklist.find(...): the first track whose normalised title
\* contains the normalised track name or is contained in it, as a
\* one-element sequence, << >> for undefined
FindMatchingTrack(tracklist, trackName) ==
    LET normalizedTrackName == normalizeForComparison(trackName)
        hits == {i \in 1..Len(tracklist) :
                    \/ Includes(normalizeForComparison(tracklist[i].title), normalizedTrackName)
                    \/ Includes(normalizedTrackName, normalizeForComparison(tracklist[i].title))}
    IN  IF hits = {} THEN <<>> ELSE <<tracklist[CHOOSE i \in hits : \A j \in hits : i <= j]>>

\* the test that skips a release-level credit given for other tracks
SkippedForTrack(artist, matchingTrack) ==
    /\ artist.tracks # ""
    /\ matchingTrack # <<>>
    /\ LET parts == SplitOnComma(artist.tracks)
           trackPositions == {Trimmed(parts[i]) : i \in 1..Len(parts)}
       IN  matchingTrack[1].position \notin trackPositions /\ "" \notin trackPositions

\* the credits getTrackCredits turns into relationships, in its order: those
\* of the matching track, then the release-level credits not skipped
CreditsForTrack(release, trackName) ==
    LET matchingTrack == FindMatchingTrack(release.tracklist, trackName)
        Credit(artist) == [artist |-> artist.id, role |-> mapDiscogsRole(artist.role)]
        ofTrack == IF matchingTrack = <<>> THEN <<>>
                   ELSE [i \in 1..Len(matchingTrack[1].extraartists) |-> Credit(matchingTrack[1].extraartists[i])]
        kept == SelectSeq(release.extraartists, LAMBDA artist : ~SkippedForTrack(artist, matchingTrack))
    IN  ofTrack \o [i \in 1..Len(kept) |-> Credit(kept[i])]

\* what Discogs holds: releases of up to MaxTracklist tracks, numbered from
\* 1, each with or without a credit of its own, and up to MaxReleaseCredits
\* release-level credits with a track scope ("" for none)
Titles == {TrackTitle, <<"S", "o", "l", "o">>, AlbumTitle}
Positions == <<"1", "2">>
TrackScopes == {"", "1", "2", "1, 2"}
TrackExtras == {<<>>, <<[id |-> NumDiscogs, role |-> "Guitar"]>>}
Tracklists ==
    UNION {{[i \in 1..k |-> [position |-> Positions[i], title |-> t[i], extraartists |-> x[i]]] :
               t \in [1..k -> Titles], x \in [1..k -> TrackExtras]} : k \in 1..MaxTracklist}
ReleaseCredits == SeqsUpTo([id : DiscogsIds, role : {"Producer"}, tracks : TrackScopes], MaxReleaseCredits)
Releases == [tracklist : Tracklists, extraartists : ReleaseCredits]

\* getTrackCredits returns for the release found
GetTrackCredits(release, trackName) ==
    /\ probe.op = "none"
    /\ probe' = [op |-> "getTrackCredits", release |-> release, trackName |-> trackName,
                 result |-> getTrackCredits(CreditsForTrack(release, trackName), TrackId(1))]
    /\ UNCHANGED <<now, cacheVars, limiterVars, fetchVars, graphVars, assemblies, pathVars>>

\* no release is found: the empty result
NoReleaseFound ==
    /\ probe.op = "none"
    /\ probe' = [op |-> "getTrackCredits", release |-> [tracklist |-> <<>>, extraartists |-> <<>>],
                 trackName |-> TrackTitle, result |-> getTrackCredits(<<>>, TrackId(1))]
    /\ UNCHANGED <<now, cacheVars, limiterVars, fetchVars, graphVars, assemblies, pathVars>>

InitDiscogs ==
    /\ localStorage = EmptyStorage
    /\ now = 0
    /\ FreshCache
    /\ FreshLimiter
    /\ FreshFetch
    /\ FreshGraph

NextDiscogs ==
    \/ \E release \in Releases : GetTrackCredits(release, TrackTitle)
    \/ NoReleaseFound

SpecDiscogs == InitDiscogs /\ [][NextDiscogs]_vars

\* the positions at which the release lists the requested track
PositionsOf(release, trackName) ==
    {release.tracklist[i].position : i \in {j \in 1..Len(release.tracklist) :
        normalizeForComparison(release.tracklist[j].title) = normalizeForComparison(trackName)}}

\* the positions a release-level credit is given for
ScopeOf(artist) ==
    LET parts == SplitOnComma(artist.tracks) IN {Trimmed(parts[i]) : i \in 1..Len(parts)}

\* C17 (as claimed): when the release lists the requested track at one
\* position, a release-level credit given for positions that do not include
\* it brings no relationship into the result of getTrackCredits: every
\* relationship of the result comes from a credit of the track itself, from
\* a release-level credit without track scope, or from one whose positions
\* include the track's.
C17_OtherTracksCreditsAbsent ==
    (probe.op = "getTrackCredits" /\ Cardinality(PositionsOf(probe.release, probe.trackName)) = 1) =>
       LET release == probe.release
           position == CHOOSE p \in PositionsOf(release, probe.trackName) : TRUE
           own == {i \in 1..Len(release.tracklist) : release.tracklist[i].position = position}
           applying ==
               {[id |-> release.extraartists[i].id, role |-> release.extraartists[i].role] :
                   i \in {j \in 1..Len(release.extraartists) :
                             \/ release.extraartists[j].tracks = ""
                             \/ position \in ScopeOf(release.extraartists[j])}}
               \cup UNION {Range(release.tracklist[i].extraartists) : i \in own}
       IN  \A i \in 1..Len(probe.result.relationships) :
              \E c \in applying :
                 /\ probe.result.relationships[i].target = DiscogsArtistId(c.id)
                 /\ probe.result.relationships[i].role = mapDiscogsRole(c.role)

(***************************************************************************)
(* The recording matcher of buildGraphFromTrack: when the lookup through    *)
(* the release found nothing (or no album is given), the recordings that    *)
(* searchRecording returns are scored by scoreRecordingMatch, sorted by     *)
(* score, and the first one is taken.  A recording's title, artist names    *)
(* and release titles are names (sequences of characters); its              *)
(* disambiguation is a string.                                              *)
(***************************************************************************)
\* the characters of a string, as a name
Chars(str) == [i \in 1..Len(str) |-> SubSeq(str, i, i)]

\* bracketPattern.test(title): an opening "(", "[" or "-", later one of the
\* words, later a closing ")" or "]", case-insensitive
BracketPattern(title) ==
    LET lower == toLowerCase(title)
        words == {"live", "remix", "acoustic", "demo", "radio", "instrumental", "remaster", "edit", "mix"}
    IN  \E i \in 1..Len(title) :
           /\ title[i] \in {"(", "[", "-"}
           /\ \E w \in words : \E p \in (i + 1)..(Len(title) - Len(w) + 1) :
                 /\ SubSeq(lower, p, p + Len(w) - 1) = Chars(w)
                 /\ \E k \in (p + Len(w))..Len(title) : title[k] \in {")", "]"}

isAlternateVersion(title, disambiguation) ==
    LET lowerDisamb == LowerCased(disambiguation)
        alternateIndicators ==
            {"live", "remix", "acoustic", "demo", "radio edit", "instrumental",
             "karaoke", "cover", "remaster", "alternate", "edit", "mix",
             "version", "reprise", "interlude", "skit"}
    IN  \/ ContainsAny(lowerDisamb, alternateIndicators)
        \/ BracketPattern(title)

isAlternateRelease(release) ==
    LET alternateTypes == {"Live", "Remix", "Compilation", "DJ-mix", "Mixtape/Street", "Soundtrack"}
        title == toLowerCase(release.title)
        compilationIndicators ==
            {"greatest hits", "best of", "collection", "anthology",
             "soundtrack", "ost", "motion picture", "film", "movie",
             "various artists", "compilation", "now that's what i call",
             "hits", "essentials", "ultimate", "complete", "definitive"}
    IN  \/ release.secondaryTypes \cap alternateTypes # {}
        \/ \E indicator \in compilationIndicators : Includes(title, Chars(indicator))

\* the score of one release against the album asked for
ReleaseScore(release, normalizedAlbum) ==
    LET normalizedReleaseTitle == normalizeForComparison(release.title)
    IN  (IF normalizedReleaseTitle = normalizedAlbum THEN 80
         ELSE IF Includes(normalizedReleaseTitle, normalizedAlbum)
                 \/ Includes(normalizedAlbum, normalizedReleaseTitle) THEN 40
         ELSE 0)
        + (IF release.status = "Official" THEN 10 ELSE 0)
        - (IF isAlternateRelease(release) THEN 60 ELSE 0)
        + (IF release.primaryType = "Album" THEN 15 ELSE 0)

\* the loop over the releases: the best release score, from -50
RECURSIVE BestReleaseScore(_, _, _)
BestReleaseScore(releases, normalizedAlbum, bestReleaseScore) ==
    IF releases = <<>> THEN bestReleaseScore
    ELSE LET releaseScore == ReleaseScore(Head(releases), normalizedAlbum)
         IN  BestReleaseScore(Tail(releases), normalizedAlbum,
                              IF releaseScore > bestReleaseScore THEN releaseScore ELSE bestReleaseScore)

\* albumName is << >> when no album is given
scoreRecordingMatch(recording, trackName, artistName, albumName) ==
    LET normalizedTrack == normalizeForComparison(trackName)
        normalizedRecordingTitle == normalizeForComparison(recording.title)
        normalizedArtist == normalizeForComparison(artistName)
        disamb == LowerCased(recording.disambiguation)
        artistCreditCount == Len(recording.artistCredit)
        recordingArtists == {normalizeForComparison(recording.artistCredit[i]) : i \in 1..artistCreditCount}
    IN  recording.score
        + (IF normalizedRecordingTitle = normalizedTrack THEN 50 ELSE 0)
        - (IF isAlternateVersion(recording.title, recording.disambiguation) THEN 100 ELSE 0)
        - (IF ContainsAny(disamb, {"clean", "edited", "radio edit"}) THEN 50 ELSE 0)
        + (IF artistCreditCount > 1 THEN 25 * (artistCreditCount - 1) ELSE 0)
        + (IF \E a \in recordingArtists : a = normalizedArtist \/ Includes(a, normalizedArtist) THEN 30 ELSE 0)
        + (IF albumName # <<>>
           THEN BestReleaseScore(recording.releases, normalizeForComparison(albumName), -50)
           ELSE 0)

\* the comparator reversed: ascending scores
compareScoresAscending(a, b) == a.score - b.score

\* variant: the comparator consults the alias table
compareScoresByAliasTable(a, b) == IF aliasTable.fetchedAliases = {} THEN b.score - a.score ELSE a.score - b.score

\* the comparator of scoredRecordings.sort: descending scores
compareScores(a, b) == b.score - a.score

\* Array.prototype.sort, which is stable: each element goes before the
\* first one the comparator orders after it
InsertSorted(sorted, e) ==
    LET after == {k \in 1..Len(sorted) : compareScores(sorted[k], e) > 0}
        at == IF after = {} THEN Len(sorted) + 1 ELSE CHOOSE k \in after : \A j \in after : k <= j
    IN  SubSeq(sorted, 1, at - 1) \o <<e>> \o SubSeq(sorted, at, Len(sorted))

RECURSIVE SortByScore(_)
SortByScore(scored) ==
    IF scored = <<>> THEN <<>>
    ELSE InsertSorted(SortByScore(SubSeq(scored, 1, Len(scored) - 1)), scored[Len(scored)])

\* the recordings scored, with their place in the search result
ScoredRecordings(recordings, albumName) ==
    [i \in 1..Len(recordings) |->
        [recording |-> recordings[i], at |-> i,
         score |-> scoreRecordingMatch(recordings[i], TrackTitle, ArtistName(1), albumName)]]

\* what MusicBrainz may return for the track "So" of artist 1 on the album
\* "Lp": studio recordings on the album, on a compilation of that title and
\* on the album without release status, alternate versions with other
\* releases or none, one of them with four credited artists, and recordings
\* of other titles
OnAlbum == [title |-> AlbumTitle, status |-> "Official", primaryType |-> "Album", secondaryTypes |-> {}]
OnCompilation == [title |-> AlbumTitle, status |-> "", primaryType |-> "", secondaryTypes |-> {"Compilation"}]
OnBareAlbum == [title |-> AlbumTitle, status |-> "", primaryType |-> "", secondaryTypes |-> {}]
OnOtherAlbum == [title |-> <<"G", "i", "g", "s">>, status |-> "Official", primaryType |-> "Album", secondaryTypes |-> {}]
LiveTitle == <<"S", "o", " ", "(", "L", "i", "v", "e", ")">>
OtherTitle == <<"X", "x">>
Candidates ==
    {[id |-> 1, title |-> TrackTitle, disambiguation |-> "", score |-> 100,
      artistCredit |-> <<ArtistName(1)>>, releases |-> <<OnAlbum>>],
     [id |-> 2, title |-> LiveTitle, disambiguation |-> "live", score |-> 100,
      artistCredit |-> <<ArtistName(1)>>, releases |-> <<>>],
     [id |-> 3, title |-> TrackTitle, disambiguation |-> "", score |-> 0,
      artistCredit |-> <<ArtistName(1)>>, releases |-> <<OnCompilation>>],
     [id |-> 4, title |-> TrackTitle, disambiguation |-> "Live", score |-> 100,
      artistCredit |-> <<ArtistName(1)>>, releases |-> <<OnOtherAlbum>>],
     [id |-> 5, title |-> TrackTitle, disambiguation |-> "", score |-> 0,
      artistCredit |-> <<ArtistName(1)>>, releases |-> <<OnBareAlbum>>],
     [id |-> 6, title |-> TrackTitle, disambiguation |-> "remix", score |-> 100,
      artistCredit |-> <<ArtistName(1), ArtistName(2), ArtistName(3), ArtistName(4)>>,
      releases |-> <<OnOtherAlbum>>],
     [id |-> 7, title |-> OtherTitle, disambiguation |-> "clean", score |-> 0,
      artistCredit |-> <<ArtistName(2)>>, releases |-> <<>>],
     [id |-> 8, title |-> OtherTitle, disambiguation |-> "demo", score |-> 0,
      artistCredit |-> <<ArtistName(2)>>, releases |-> <<>>],
     [id |-> 9, title |-> OtherTitle, disambiguation |-> "live", score |-> 50,
      artistCredit |-> <<ArtistName(2)>>, releases |-> <<>>]}
SearchResults == SeqsUpTo(Candidates, MaxCandidates)

\* strategy 2 of buildGraphFromTrack: the search with the album, the search
\* without it when that one is empty, the empty graph when both are, and
\* otherwise the first of the recordings sorted by score
RecordingsSearched(albumName, withAlbum, withoutAlbum) ==
    /\ probe.op = "none"
    /\ withAlbum # <<>> => withoutAlbum = <<>>
    /\ albumName = <<>> => withoutAlbum = <<>>
    /\ LET recordings == IF withAlbum = <<>> /\ albumName # <<>> THEN withoutAlbum ELSE withAlbum
           scoredRecordings == SortByScore(ScoredRecordings(recordings, albumName))
       IN  probe' = [op |-> "searchRecording", albumName |-> albumName, recordings |-> recordings,
                     scores |-> [i \in 1..Len(recordings) |->
                                    scoreRecordingMatch(recordings[i], TrackTitle, ArtistName(1), albumName)],
                     found |-> recordings # <<>>,
                     bestRecording |-> IF recordings = <<>> THEN 0 ELSE scoredRecordings[1].at]
    /\ UNCHANGED <<now, cacheVars, limiterVars, fetchVars, graphVars, assemblies, pathVars>>

InitMatch ==
    /\ localStorage = EmptyStorage
    /\ now = 0
    /\ FreshCache
    /\ FreshLimiter
    /\ FreshFetch
    /\ FreshGraph

NextMatch ==
    \/ \E albumName \in {<<>>, AlbumTitle}, withAlbum \in SearchResults \ {<<>>} :
          RecordingsSearched(albumName, withAlbum, <<>>)
    \/ \E withoutAlbum \in SearchResults : RecordingsSearched(AlbumTitle, <<>>, withoutAlbum)
    \/ RecordingsSearched(<<>>, <<>>, <<>>)

SpecMatch == InitMatch /\ [][NextMatch]_vars

\* C19: when the recording search returns candidates, the one taken has the
\* highest adjusted score and is the earliest in the search result among
\* those with that score, whatever the sign of the scores; the empty graph
\* is returned exactly when the search returns no candidate.
C19_BestEarliestCandidate ==
    probe.op = "searchRecording" =>
       /\ probe.found <=> probe.recordings # <<>>
       /\ probe.found =>
             /\ probe.bestRecording \in 1..Len(probe.recordings)
             /\ \A i \in 1..Len(probe.recordings) :
                   /\ probe.scores[i] <= probe.scores[probe.bestRecording]
                   /\ probe.scores[i] = probe.scores[probe.bestRecording] => probe.bestRecording <= i

\* three candidates, all with negative scores, the best score shared by the
\* second and the third: the second is taken
C19_Witness ==
    /\ probe.op = "searchRecording"
    /\ Len(probe.recordings) = 3
    /\ \A i \in 1..3 : probe.scores[i] < 0
    /\ probe.scores[1] < probe.scores[2]
    /\ probe.scores[2] = probe.scores[3]
    /\ probe.bestRecording = 2

\* a recording that the title or the disambiguation marks as an alternate
\* version, the words of the specification
MarkedAlternate(recording) ==
    \/ ContainsAny(LowerCased(recording.disambiguation),
                   {"live", "remix", "acoustic", "demo", "radio edit", "instrumental",
                    "karaoke", "cover", "remaster", "alternate"})
    \/ \E w \in {"live", "remix", "acoustic", "demo"} : Includes(toLowerCase(recording.title), Chars(w))

\* a release of the recording bears the title of the album / one matches it
HasReleaseTitled(recording, albumName) ==
    \E i \in 1..Len(recording.releases) :
        normalizeForComparison(recording.releases[i].title) = normalizeForComparison(albumName)
HasReleaseMatching(recording, albumName) ==
    \E i \in 1..Len(recording.releases) :
        LET t == normalizeForComparison(recording.releases[i].title)
            b == normalizeForComparison(albumName)
        IN  Includes(t, b) \/ Includes(b, t)

\* C20 (as claimed): with an album asked for, a candidate with the title
\* asked for that is not marked as an alternate version and has a release
\* with the album's title scores strictly higher than a candidate marked as
\* an alternate version without a release matching the album, and the
\* alternate version is not the one taken.
C20_StudioOutscoresAlternate ==
    (probe.op = "searchRecording" /\ probe.albumName # <<>>) =>
       \A i, j \in 1..Len(probe.recordings) :
          LET studio == probe.recordings[i]
              alternate == probe.recordings[j]
          IN  (/\ normalizeForComparison(studio.title) = normalizeForComparison(TrackTitle)
               /\ ~MarkedAlternate(studio)
               /\ HasReleaseTitled(studio, probe.albumName)
               /\ MarkedAlternate(alternate)
               /\ ~HasReleaseMatching(alternate, probe.albumName))
              => (probe.scores[i] > probe.scores[j] /\ probe.bestRecording # j)

(***************************************************************************)
(* The name normalisers, applied to every name of up to MaxNameLength       *)
(* characters over a sample of letters, digits, punctuation and white       *)
(* space, and to the artist names that music.ts documents.                  *)
(***************************************************************************)
\* str.replace(/\s+/g, '_')
RECURSIVE UnderscoreSpaces(_)
UnderscoreSpaces(str) ==
    IF str = <<>> THEN <<>>
    ELSE IF IsSpace(Head(str))
         THEN IF Tail(str) # <<>> /\ IsSpace(Head(Tail(str)))
              THEN UnderscoreSpaces(Tail(str))
              ELSE <<"_">> \o UnderscoreSpaces(Tail(str))
         ELSE <<Head(str)>> \o UnderscoreSpaces(Tail(str))

\* normalizeForKey of trackCache.ts; slice(0, 50) is scaled to KeySlice
normalizeForKey(str) ==
    LET cleaned == Trim(UnderscoreSpaces(SelectSeq(toLowerCase(str), LAMBDA c : IsWord(c) \/ IsSpace(c))))
    IN  SubSeq(cleaned, 1, IF Len(cleaned) < KeySlice THEN Len(cleaned) ELSE KeySlice)

NameAlphabet == {"J", "s", "1", ".", "-", "_", "$", " "}
DocumentedNames == {Chars("J.I.D."), Chars("JID"), Chars("A$AP Rocky"), Chars("ASAP Rocky")}
Names == SeqsUpTo(NameAlphabet, MaxNameLength) \cup DocumentedNames

Normalizers == {"normalizeForComparison", "normalizeArtistName", "normalizeForKey", "normalizeForCache"}
Normalized(fn, str) ==
    CASE fn = "normalizeForComparison" -> normalizeForComparison(str)
      [] fn = "normalizeArtistName" -> normalizeArtistName(str)
      [] fn = "normalizeForKey" -> normalizeForKey(str)
      [] fn = "normalizeForCache" -> normalizeForCache(str)

\* a normaliser is applied to a name, and once more to what it returned
Normalize(fn, str) ==
    /\ probe.op = "none"
    /\ probe' = [op |-> fn, input |-> str, result |-> Normalized(fn, str),
                 again |-> Normalized(fn, Normalized(fn, str))]
    /\ UNCHANGED <<now, cacheVars, limiterVars, fetchVars, graphVars, assemblies, pathVars>>

InitNormalize ==
    /\ localStorage = EmptyStorage
    /\ now = 0
    /\ FreshCache
    /\ FreshLimiter
    /\ FreshFetch
    /\ FreshGraph

NextNormalize == \E fn \in Normalizers, str \in Names : Normalize(fn, str)

SpecNormalize == InitNormalize /\ [][NextNormalize]_vars

\* C29: each of the four normalisers returns its own output unchanged.
C29_NormalizersIdempotent ==
    probe.op \in Normalizers => probe.again = probe.result

\* a name with upper case, punctuation and white space at both ends, that
\* the normaliser changed
C29_Witness ==
    /\ probe.op = "normalizeForCache"
    /\ probe.input = <<" ", ".", " ", "J">>
    /\ probe.result = <<"j">>

\* the name without periods, hyphens and underscores, and with the letter
\* for which "$" stands
RECURSIVE Spelled(_)
Spelled(str) ==
    IF str = <<>> THEN <<>>
    ELSE IF Head(str) \in {".", "-", "_"} THEN Spelled(Tail(str))
    ELSE <<IF Head(str) = "$" THEN "s" ELSE Head(str)>> \o Spelled(Tail(str))

\* C30 (as claimed): a name and its spelling without periods, hyphens,
\* underscores and currency signs for letters have the same key under
\* normalizeArtistName; "J.I.D." and "JID" give "jid", "A$AP Rocky" and
\* "ASAP Rocky" give "asap rocky".
C30_SpellingsShareKey ==
    probe.op = "normalizeArtistName" =>
       /\ probe.result = normalizeArtistName(Spelled(probe.input))
       /\ probe.input \in {Chars("J.I.D."), Chars("JID")} => probe.result = Chars("jid")
       /\ probe.input \in {Chars("A$AP Rocky"), Chars("ASAP Rocky")} => probe.result = Chars("asap rocky")

(***************************************************************************)
(* The requests of the graph-producing entry points.  Every request goes    *)
(* through fetchMB or fetchDiscogs: the call waits for its limiter          *)
(* (throttle), sends, and is answered.  wire follows one call of            *)
(* buildGraphFromTrack, searchAndBuildGraph or initializeArtistGraph from   *)
(* its first request to its return: the requests under way, the paths sent  *)
(* in their order, and what the call has decided so far.                    *)
(***************************************************************************)
SourceOf(path) == IF path \in {"discogs-search", "discogs-release"} THEN "discogs" ELSE "musicbrainz"

\* variant: the request is ready to be sent without a throttle() call
StartFetchUnthrottled(w, id, path) ==
    [w EXCEPT !.fetches = @ \cup {[id |-> id, path |-> path, pc |-> "ready", throttled |-> "", retries |-> 0]}]

\* fetchMB / fetchDiscogs is called: await rateLimiter.throttle() comes first
StartFetch(w, id, path) ==
    [w EXCEPT !.fetches = @ \cup {[id |-> id, path |-> path, pc |-> "throttle", throttled |-> "", retries |-> 0]}]

Awaiting(id) == \E f \in wire.fetches : f.id = id /\ f.pc = "awaiting"
Settled(w, id) == [w EXCEPT !.fetches = {f \in @ : f.id # id}]
\* variant: every return hands the graph to setCachedTrack first
ReturnsStoring(w, outcome) ==
    [w EXCEPT !.pc = "returned", !.outcome = outcome, !.fetches = {}, !.stores = @ + 1]

Returns(w, outcome) == [w EXCEPT !.pc = "returned", !.outcome = outcome, !.fetches = {}]

\* the limiter of the request's source lets the call through
ThrottleReturns(id) ==
    /\ \E f \in wire.fetches :
          /\ f.id = id /\ f.pc = "throttle"
          /\ wire' = [wire EXCEPT !.fetches = (@ \ {f}) \cup {[f EXCEPT !.pc = "ready", !.throttled = SourceOf(f.path)]}]
    /\ UNCHANGED <<now, cacheVars, limiterVars, fetchVars, graphVars, entryVars, sharers, images>>

\* fetch(url) of fetchMB / fetchDiscogs
RequestSent(id) ==
    /\ \E f \in wire.fetches :
          /\ f.id = id /\ f.pc = "ready"
          /\ wire' = [wire EXCEPT !.fetches = (@ \ {f}) \cup {[f EXCEPT !.pc = "awaiting"]},
                                  !.sent = Append(@, f.path)]
    /\ UNCHANGED <<now, cacheVars, limiterVars, fetchVars, graphVars, entryVars, sharers, images>>

\* what the release search of findRecordingViaRelease may return for the
\* album "Lp": the album, its deluxe edition, a compilation of that title
FoundReleases ==
    {[id |-> 1, title |-> AlbumTitle, status |-> "Official", primaryType |-> "Album", secondaryTypes |-> {}, score |-> 100],
     [id |-> 2, title |-> Chars("Lp Deluxe"), status |-> "Official", primaryType |-> "Album", secondaryTypes |-> {},
      score |-> 100],
     [id |-> 3, title |-> AlbumTitle, status |-> "", primaryType |-> "", secondaryTypes |-> {"Compilation"}, score |-> 100]}
ReleaseLists ==
    {l \in SeqsUpTo(FoundReleases, Cardinality(FoundReleases)) : \A i, j \in 1..Len(l) : i # j => l[i] # l[j]}

\* /\b(word)\b/ on a name: the word between characters that are not \w
WordIn(str, word) ==
    \E i \in 1..(Len(str) - Len(word) + 1) :
        /\ SubSeq(str, i, i + Len(word) - 1) = Chars(word)
        /\ i = 1 \/ ~IsWord(str[i - 1])
        /\ i + Len(word) > Len(str) \/ ~IsWord(str[i + Len(word)])

\* the score findRecordingViaRelease gives a release
scoreRelease(r, albumName) ==
    LET titleLower == toLowerCase(r.title)
        editions == {"25", "30", "40", "50", "deluxe", "special", "anniversary", "remaster", "expanded"}
    IN  r.score
        + (IF normalizeForComparison(r.title) = normalizeForComparison(albumName) THEN 100 ELSE 0)
        + (IF r.status = "Official" THEN 20 ELSE 0)
        - (IF r.secondaryTypes \cap {"Compilation", "Live", "Remix", "DJ-mix"} # {} THEN 100 ELSE 0)
        - (IF \E word \in editions : WordIn(titleLower, word) THEN 50 ELSE 0)
        + (IF r.primaryType = "Album" THEN 30 ELSE 0)

\* scoredReleases.sort(...).slice(0, 3), the slice scaled to OpenedReleases
TopReleases(releases, albumName) ==
    LET scored == SortByScore([i \in 1..Len(releases) |->
                                  [release |-> releases[i], score |-> scoreRelease(releases[i], albumName)]])
    IN  [i \in 1..(IF Len(scored) < OpenedReleases THEN Len(scored) ELSE OpenedReleases) |-> scored[i].release.id]

\* the call starts: a cache hit is returned at once; with an album the
\* releases are searched first, without one the recordings
BuildGraphFromTrack(album, cached) ==
    /\ wire.op = "none"
    /\ LET w == [NoWire EXCEPT !.op = "buildGraphFromTrack", !.album = album, !.cached = cached]
       IN  wire' = IF cached THEN [Returns(w, "graph") EXCEPT !.graph = {"track"}]
                   ELSE IF album THEN StartFetch([w EXCEPT !.pc = "searchRelease"], 0, "release-search")
                   ELSE StartFetch([w EXCEPT !.pc = "searchRecording"], 0, "recording-search")
    /\ UNCHANGED <<now, cacheVars, limiterVars, fetchVars, graphVars, entryVars, sharers, images>>

SearchRecordings(w) == StartFetch([Settled(w, 0) EXCEPT !.pc = "searchRecording"], 0, "recording-search")
LookUpRecording(w) == StartFetch([Settled(w, 0) EXCEPT !.pc = "recording"], 0, "recording-lookup")

\* searchRelease returns or throws (outside any try); the best releases are
\* opened in turn
ReleaseSearchAnswered(ok, releases) ==
    /\ wire.pc = "searchRelease" /\ Awaiting(0)
    /\ wire' = IF ~ok THEN [Returns(wire, "raised") EXCEPT !.failed = TRUE]
               ELSE IF releases = <<>> THEN SearchRecordings([wire EXCEPT !.viaRelease = "null"])
               ELSE LET ranked == TopReleases(releases, AlbumTitle)
                    IN  StartFetch([Settled(wire, 0) EXCEPT !.pc = "openRelease", !.releases = releases,
                                                           !.ranked = ranked, !.opened = <<ranked[1]>>,
                                                           !.candidates = TRUE],
                                   0, "release-lookup")
    /\ UNCHANGED <<now, cacheVars, limiterVars, fetchVars, graphVars, entryVars, sharers, images>>

\* one release is answered: with the track on it, without it, or not at all
\* (caught); the next release is opened, or the lookup has found nothing
ReleaseOpened(answer) ==
    /\ wire.pc = "openRelease" /\ Awaiting(0)
    /\ LET w == [wire EXCEPT !.hits = Append(@, answer)]
       IN  wire' = IF answer = "hit" THEN LookUpRecording([w EXCEPT !.viaRelease = "found"])
                   ELSE IF Len(wire.opened) < Len(wire.ranked)
                        THEN StartFetch([Settled(w, 0) EXCEPT !.opened = Append(@, wire.ranked[Len(wire.opened) + 1])],
                                        0, "release-lookup")
                        ELSE SearchRecordings([w EXCEPT !.viaRelease = "null"])
    /\ UNCHANGED <<now, cacheVars, limiterVars, fetchVars, graphVars, entryVars, sharers, images>>

\* searchRecording returns or throws: once more without the album when it
\* found nothing with it, the empty graph when nothing is found, else the
\* best recording is looked up
RecordingSearchAnswered(ok, some) ==
    /\ wire.pc \in {"searchRecording", "searchRecordingAgain"} /\ Awaiting(0)
    /\ wire' = IF ~ok THEN [Returns(wire, "raised") EXCEPT !.failed = TRUE]
               ELSE IF some THEN LookUpRecording([wire EXCEPT !.candidates = TRUE])
               ELSE IF wire.album /\ wire.pc = "searchRecording"
                    THEN StartFetch([Settled(wire, 0) EXCEPT !.pc = "searchRecordingAgain"], 0, "recording-search")
                    ELSE Returns(wire, "empty")
    /\ UNCHANGED <<now, cacheVars, limiterVars, fetchVars, graphVars, entryVars, sharers, images>>

RECURSIVE StartAliasCalls(_, _)
StartAliasCalls(w, n) == IF n = 0 THEN w ELSE StartAliasCalls(StartFetch(w, n, "alias"), n - 1)

\* the full recording arrives or the request throws; the track entity and
\* the credited artists are added and fetchArtistAliases is started for the
\* aliasCalls credited artists whose aliases were not fetched before
RecordingDetailsAnswered(ok, details, aliasCalls) ==
    /\ wire.pc = "recording" /\ Awaiting(0)
    /\ wire' = IF ~ok THEN [Returns(wire, "raised") EXCEPT !.failed = TRUE]
               ELSE StartAliasCalls([Settled(wire, 0) EXCEPT !.pc = "aliases", !.resolved = TRUE,
                                                            !.details = details, !.graph = {"track", "artist"}],
                                    aliasCalls)
    /\ UNCHANGED <<now, cacheVars, limiterVars, fetchVars, graphVars, entryVars, sharers, images>>

\* an alias request is answered or fails; fetchArtistAliases catches
AliasAnswered(id, ok) ==
    /\ wire.pc = "aliases" /\ Awaiting(id)
    /\ wire' = Settled(wire, id)
    /\ UNCHANGED <<now, cacheVars, limiterVars, fetchVars, graphVars, entryVars, sharers, images>>

ToDiscogs(w, configured) ==
    IF configured THEN StartFetch([w EXCEPT !.pc = "discogsSearch"], 0, "discogs-search") ELSE [w EXCEPT !.pc = "images"]

\* Promise.all has settled.  `fullRecording.releases || bestRecording.releases
\* || []` reads bestRecording, a const of the block of the recording search,
\* outside that block: when the details carry no releases field the
\* reference cannot be resolved and a ReferenceError is thrown.  Otherwise
\* the album of the best release and the personnel are added, and the work
\* of a work relation is requested
AlbumAndPersonnel(configured) ==
    /\ wire.pc = "aliases" /\ wire.fetches = {}
    /\ wire' = IF wire.details.releases = "missing" THEN Returns(wire, "raised")
               ELSE LET w == [wire EXCEPT !.graph = @ \cup (IF wire.details.releases = "some" THEN {"album"} ELSE {})
                                                      \cup (IF wire.details.relations = "artist" THEN {"personnel"} ELSE {})]
                    IN  IF wire.details.relations = "work" THEN StartFetch([w EXCEPT !.pc = "works"], 0, "work")
                        ELSE ToDiscogs(w, configured)
    /\ UNCHANGED <<now, cacheVars, limiterVars, fetchVars, graphVars, entryVars, sharers, images>>

\* the work arrives or the request fails (caught)
WorkAnswered(ok, configured) ==
    /\ wire.pc = "works" /\ Awaiting(0)
    /\ wire' = ToDiscogs([Settled(wire, 0) EXCEPT !.graph = @ \cup (IF ok THEN {"writer"} ELSE {})], configured)
    /\ UNCHANGED <<now, cacheVars, limiterVars, fetchVars, graphVars, entryVars, sharers, images>>

\* fetchDiscogs is answered: 429 makes it sleep and call itself again, any
\* other error is caught by searchRelease / getRelease of discogs.ts; the
\* search is followed by the request for the best release
DiscogsAnswered(status, found) ==
    /\ wire.pc \in {"discogsSearch", "discogsRelease"} /\ Awaiting(0)
    /\ \E f \in wire.fetches :
          /\ f.id = 0
          /\ status = 429 => f.retries < MaxRetries
          /\ wire' = IF status = 429
                     THEN [wire EXCEPT !.fetches = {[f EXCEPT !.pc = "throttle", !.throttled = "", !.retries = @ + 1]},
                                       !.retried = TRUE]
                     ELSE IF status # 200
                          THEN [Settled(wire, 0) EXCEPT !.pc = "images"]
                     ELSE IF wire.pc = "discogsSearch"
                          THEN IF found THEN StartFetch([Settled(wire, 0) EXCEPT !.pc = "discogsRelease"], 0, "discogs-release")
                               ELSE [Settled(wire, 0) EXCEPT !.pc = "images"]
                     ELSE [Settled(wire, 0) EXCEPT !.pc = "images", !.graph = @ \cup {"discogs"}]
    /\ UNCHANGED <<now, cacheVars, limiterVars, fetchVars, graphVars, entryVars, sharers, images>>

\* the image requests settle or time out, failures are caught; the graph is
\* handed to setCachedTrack and returned
ImagesSettled(ok) ==
    /\ wire.pc = "images"
    /\ wire' = [Returns(wire, "graph") EXCEPT !.stores = @ + 1]
    /\ UNCHANGED <<now, cacheVars, limiterVars, fetchVars, graphVars, entryVars, sharers, images>>

\* searchAndBuildGraph and initializeArtistGraph start with searchArtist
ArtistGraphCalled(op) ==
    /\ wire.op = "none"
    /\ wire' = StartFetch([NoWire EXCEPT !.op = op, !.pc = "searchArtist"], 0, "artist-search")
    /\ UNCHANGED <<now, cacheVars, limiterVars, fetchVars, graphVars, entryVars, sharers, images>>

\* searchArtist returns or throws.  Without an artist searchAndBuildGraph
\* returns the empty graph and initializeArtistGraph throws 'Artist not
\* found'; with one, the artist's relations or release groups are requested
ArtistSearchAnswered(ok, some) ==
    /\ wire.pc = "searchArtist" /\ Awaiting(0)
    /\ wire' = IF ~ok THEN [Returns(wire, "raised") EXCEPT !.failed = TRUE]
               ELSE IF ~some
                    THEN Returns(wire, IF wire.op = "searchAndBuildGraph" THEN "empty" ELSE "raised")
               ELSE StartFetch([Settled(wire, 0) EXCEPT !.pc = "artist", !.candidates = TRUE], 0,
                               IF wire.op = "searchAndBuildGraph" THEN "artist-relations" ELSE "release-groups")
    /\ UNCHANGED <<now, cacheVars, limiterVars, fetchVars, graphVars, entryVars, sharers, images>>

\* getArtistRelations asks for the relations and then for the artist;
\* getArtistReleases asks for the release groups
ArtistAnswered(ok) ==
    /\ wire.pc = "artist" /\ Awaiting(0)
    /\ wire' = IF ~ok THEN [Returns(wire, "raised") EXCEPT !.failed = TRUE]
               ELSE IF "artist-relations" \in Range(wire.sent) /\ "artist-lookup" \notin Range(wire.sent)
                    THEN StartFetch(Settled(wire, 0), 0, "artist-lookup")
               ELSE [Returns(wire, "graph") EXCEPT !.graph = {"artist"}]
    /\ UNCHANGED <<now, cacheVars, limiterVars, fetchVars, graphVars, entryVars, sharers, images>>

\* the recording details as far as the assembly depends on them: the
\* releases field (absent, empty, filled) and the relations (absent, artist
\* relations, a work relation)
RecordingDetails == [releases : {"missing", "none", "some"}, relations : {"missing", "artist", "work"}]

InitWire ==
    /\ localStorage = EmptyStorage
    /\ now = 0
    /\ FreshCache
    /\ FreshLimiter
    /\ FreshFetch
    /\ FreshGraph

NextWire ==
    \/ \E album, cached \in BOOLEAN : BuildGraphFromTrack(album, cached)
    \/ \E id \in 0..MaxAliasCalls : ThrottleReturns(id)
    \/ \E id \in 0..MaxAliasCalls : RequestSent(id)
    \/ \E ok \in BOOLEAN, releases \in ReleaseLists : ReleaseSearchAnswered(ok, releases)
    \/ \E answer \in {"hit", "miss", "failed"} : ReleaseOpened(answer)
    \/ \E ok, some \in BOOLEAN : RecordingSearchAnswered(ok, some)
    \/ \E ok \in BOOLEAN, details \in RecordingDetails, aliasCalls \in 0..MaxAliasCalls :
          RecordingDetailsAnswered(ok, details, aliasCalls)
    \/ \E id \in 1..MaxAliasCalls, ok \in BOOLEAN : AliasAnswered(id, ok)
    \/ \E configured \in BOOLEAN : AlbumAndPersonnel(configured)
    \/ \E ok, configured \in BOOLEAN : WorkAnswered(ok, configured)
    \/ \E status \in Statuses, found \in BOOLEAN : DiscogsAnswered(status, found)
    \/ \E ok \in BOOLEAN : ImagesSettled(ok)
    \/ \E op \in {"searchAndBuildGraph", "initializeArtistGraph"} : ArtistGraphCalled(op)
    \/ \E ok, some \in BOOLEAN : ArtistSearchAnswered(ok, some)
    \/ \E ok \in BOOLEAN : ArtistAnswered(ok)

SpecWire == InitWire /\ [][NextWire]_vars

(***************************************************************************)
(* Claims about the requests of the entry points.                           *)
(***************************************************************************)
Issued(path) == path \in Range(wire.sent) \/ \E f \in wire.fetches : f.path = path

\* the releases of the search that come before position i in rank: a higher
\* score, or the same score and an earlier place in the search result
AheadOf(scores, i) == {j \in DOMAIN scores : scores[j] > scores[i] \/ (scores[j] = scores[i] /\ j < i)}

\* C22: on a cache miss with an album, buildGraphFromTrack first searches the
\* releases, opens them in rank order, one after the other while the track is
\* not found, and takes the recording of the first release that has the track;
\* then no recording search is issued.  The recording search is issued exactly
\* when no album was given or the release-first lookup produced no recording.
C22_ReleaseFirstThenSearch ==
    (wire.op = "buildGraphFromTrack" /\ ~wire.cached) =>
       /\ (wire.album /\ wire.sent # <<>>) => wire.sent[1] = "release-search"
       /\ ~wire.album => wire.viaRelease = "untried" /\ wire.opened = <<>>
       /\ LET scores == [i \in 1..Len(wire.releases) |-> scoreRelease(wire.releases[i], AlbumTitle)]
          IN  \A k \in 1..Len(wire.opened) :
                 \E i \in 1..Len(wire.releases) :
                     wire.releases[i].id = wire.opened[k] /\ Cardinality(AheadOf(scores, i)) = k - 1
       /\ Len(wire.opened) <= OpenedReleases
       /\ \A k \in 1..Len(wire.hits) : wire.hits[k] = "hit" => k = Len(wire.opened)
       /\ wire.viaRelease = "found" <=> (wire.hits # <<>> /\ wire.hits[Len(wire.hits)] = "hit")
       /\ wire.viaRelease = "found" => ~Issued("recording-search")
       /\ Issued("recording-search") <=> (~wire.album \/ wire.viaRelease = "null")
C22_Witness ==
    /\ wire.op = "buildGraphFromTrack" /\ wire.album /\ wire.outcome = "graph"
    /\ wire.viaRelease = "found"
    /\ Len(wire.releases) = 3 /\ wire.releases[1].id = 2 /\ wire.releases[3].id = 1
    /\ wire.opened = <<1, 2>> /\ wire.hits = <<"miss", "hit">>

\* C23: every graph-producing entry point answers a catalog that returns no
\* candidate at all with the empty graph, never with an exception.
C23_NoCandidateGivesEmptyGraph ==
    (wire.outcome # "none" /\ ~wire.cached /\ ~wire.candidates /\ ~wire.failed) => wire.outcome = "empty"

\* C24: once the recording has been resolved, buildGraphFromTrack returns a
\* graph containing at least the track entity, whatever fails or is missing
\* afterwards.
C24_TrackEntityAfterResolution ==
    (wire.resolved /\ wire.outcome # "none") => (wire.outcome = "graph" /\ "track" \in wire.graph)

C37_CacheWrittenOnceAtTheEnd ==
    wire.op = "buildGraphFromTrack" =>
       /\ wire.cached =>
             /\ wire.sent = <<>> /\ wire.fetches = {} /\ wire.stores = 0
             /\ wire.pc = "returned" /\ wire.outcome = "graph"
       /\ wire.stores <= 1
       /\ wire.stores = 1 =>
             /\ ~wire.cached /\ wire.resolved
             /\ wire.pc = "returned" /\ wire.outcome = "graph" /\ "track" \in wire.graph
       /\ wire.outcome \in {"empty", "raised"} => wire.stores = 0
       /\ (~wire.cached /\ wire.outcome = "graph") => wire.stores = 1

C37_Witness ==
    /\ wire.op = "buildGraphFromTrack" /\ ~wire.cached
    /\ wire.outcome = "graph" /\ wire.stores = 1
    /\ {"album", "personnel", "discogs"} \subseteq wire.graph

(***************************************************************************)
(* The two selections of buildGraphFromTrack, run again on the same input   *)
(* after the cache and the alias table have changed: the best recording of  *)
(* a search result and the target release of the recording's releases.      *)
(***************************************************************************)
\* String.prototype.includes for the soundtrack words
isSoundtrackRelease(title) ==
    LET lower == toLowerCase(title)
    IN  \E word \in {"soundtrack", "ost", "motion picture", "film", "movie", "music from", "inspired by"} :
            Includes(lower, Chars(word))

\* the score of a release of the recording; albumName is << >> when no
\* album is given
scoreTargetRelease(release, albumName) ==
    LET normalizedAlbum == normalizeForComparison(albumName)
        normalizedReleaseTitle == normalizeForComparison(release.title)
    IN  (IF normalizedAlbum = <<>> THEN 0
         ELSE IF normalizedReleaseTitle = normalizedAlbum THEN 200
         ELSE IF Includes(normalizedReleaseTitle, normalizedAlbum)
                 \/ Includes(normalizedAlbum, normalizedReleaseTitle) THEN 80
         ELSE -100)
        + (IF release.status = "Official" THEN 15 ELSE 0)
        - (IF isAlternateRelease(release) THEN 150 ELSE 0)
        - (IF isSoundtrackRelease(release.title) THEN 100 ELSE 0)
        + (IF release.primaryType = "Album" THEN 30
           ELSE IF release.primaryType = "Single" THEN 5
           ELSE IF release.primaryType = "EP" THEN 10
           ELSE 0)

\* scoredRecordings[0] and scoredReleases[0]?.release, as places in the
\* list handed in; 0 when the list is empty
BestRecording(recordings, albumName) ==
    IF recordings = <<>> THEN 0 ELSE SortByScore(ScoredRecordings(recordings, albumName))[1].at
TargetRelease(releases, albumName) ==
    IF releases = <<>> THEN 0
    ELSE SortByScore([i \in 1..Len(releases) |->
                         [at |-> i, score |-> scoreTargetRelease(releases[i], albumName)]])[1].at

AsSingle == [title |-> TrackTitle, status |-> "Official", primaryType |-> "Single", secondaryTypes |-> {}]
OnSoundtrack == [title |-> Chars("Lp Ost"), status |-> "Official", primaryType |-> "Album", secondaryTypes |-> {}]
RecordingReleases == {OnAlbum, OnCompilation, OnOtherAlbum, AsSingle, OnSoundtrack}

Selected(list, items, albumName) ==
    IF list = "recordings" THEN BestRecording(items, albumName) ELSE TargetRelease(items, albumName)

\* a selection is made
Select(list, items, albumName) ==
    /\ probe.op = "none"
    /\ probe' = [op |-> "select", list |-> list, items |-> items, albumName |-> albumName,
                 selected |-> Selected(list, items, albumName), invocations |-> 1,
                 again |-> Selected(list, items, albumName)]
    /\ UNCHANGED <<now, cacheVars, limiterVars, fetchVars, graphVars, assemblies, pathVars>>

\* the same selection is made once more
SelectAgain ==
    /\ probe.op = "select" /\ probe.invocations = 1
    /\ probe' = [probe EXCEPT !.invocations = 2, !.again = Selected(probe.list, probe.items, probe.albumName)]
    /\ UNCHANGED <<now, cacheVars, limiterVars, fetchVars, graphVars, assemblies, pathVars>>

\* another call stores its graph in the track cache
AnotherCallCaches(key, graph) ==
    /\ probe.op = "select" /\ probe.invocations = 1
    /\ localStorage = EmptyStorage
    /\ Put(key, graph)

\* another call fetches the aliases of an artist
AnotherCallFetchesAliases(mbid) ==
    /\ probe.op = "select" /\ probe.invocations = 1
    /\ fetchArtistAliases(aliasTable, mbid, ArtistName(mbid)).started
    /\ aliasTable' = fetchArtistAliases(aliasTable, mbid, ArtistName(mbid)).table
    /\ UNCHANGED <<now, cacheVars, limiterVars, fetchVars, build, entryVars, pathVars>>

InitSelect ==
    /\ localStorage = EmptyStorage
    /\ now = 0
    /\ FreshCache
    /\ FreshLimiter
    /\ FreshFetch
    /\ FreshGraph

NextSelect ==
    \/ \E items \in SeqsUpTo(Candidates, MaxChoices), albumName \in {<<>>, AlbumTitle} :
          Select("recordings", items, albumName)
    \/ \E items \in SeqsUpTo(RecordingReleases, MaxChoices), albumName \in {<<>>, AlbumTitle} :
          Select("releases", items, albumName)
    \/ SelectAgain
    \/ \E key \in CacheKeys, graph \in Subgraphs : AnotherCallCaches(key, graph)
    \/ \E mbid \in 1..MaxChoices : AnotherCallFetchesAliases(mbid)

SpecSelect == InitSelect /\ [][NextSelect]_vars

AssembledGraphs == {g \in Subgraphs : Len(g.entities) > 0}

\* getCachedTrack at the start of the call: a hit is returned at once
CallStarts(c, key) ==
    /\ sharers.calls[c].pc \in {"idle", "done"}
    /\ sharers.runs < MaxSharerRuns
    /\ LET r == getCachedTrack(localStorage, key, now)
       IN  /\ localStorage' = r.ls
           /\ sharers' = [sharers EXCEPT !.calls[c] = [pc |-> IF r.result.null THEN "assembling" ELSE "done",
                                                       key |-> key, hit |-> ~r.result.null],
                                         !.runs = @ + 1]
    /\ UNCHANGED <<now, last, recency, fill, limiterVars, fetchVars, graphVars, entryVars, wire, images>>

\* setCachedTrack at the end of the call
CallStores(c, graph) ==
    /\ sharers.calls[c].pc = "assembling"
    /\ LET key == sharers.calls[c].key
           r == setCachedTrack(localStorage, key, graph.entities, graph.relationships, now)
       IN  /\ localStorage' = r.ls
           /\ sharers' = [sharers EXCEPT !.calls[c].pc = "done",
                                         !.put[key] = Append(@, graph),
                                         !.written[key] = IF r.reported THEN @ ELSE Append(@, graph)]
    /\ UNCHANGED <<now, last, recency, fill, limiterVars, fetchVars, graphVars, entryVars, wire, images>>

InitShare ==
    /\ localStorage \in {EmptyStorage, PrefsStorage}
    /\ now = 0
    /\ FreshCache
    /\ FreshLimiter
    /\ FreshFetch
    /\ FreshGraph

NextShare ==
    \/ \E c \in Sharers, key \in CacheKeys : CallStarts(c, key)
    \/ \E c \in Sharers, graph \in AssembledGraphs : CallStores(c, graph)

SpecShare == InitShare /\ [][NextShare]_vars

\* every call has returned
Quiet == \A c \in Sharers : sharers.calls[c].pc # "assembling"
StoredGraph(key) ==
    [entities |-> localStorage.items[key].entities, relationships |-> localStorage.items[key].relationships]
LastOf(graphs) == graphs[Len(graphs)]
IndexSound ==
    /\ \A i, j \in 1..Len(IndexKeys(localStorage)) : i # j => IndexKeys(localStorage)[i] # IndexKeys(localStorage)[j]
    /\ Len(IndexKeys(localStorage)) <= MAX_CACHE_SIZE

\* C25: after all concurrent calls have finished the index lists each key at
\* most once and holds at most MAX_CACHE_SIZE keys, and the entry stored
\* under a key is the one of the last put for that key.
C25_LastPutStored ==
    Quiet =>
       /\ IndexSound
       /\ \A key \in StoredKeys(localStorage) :
             sharers.put[key] # <<>> /\ StoredGraph(key) = LastOf(sharers.put[key])

\* what does hold: the index is sound, and the entry stored under a key is
\* the one of the last put for that key whose write storage did not refuse
WrittenPutStored ==
    /\ IndexSound
    /\ \A key \in StoredKeys(localStorage) :
          sharers.written[key] # <<>> /\ StoredGraph(key) = LastOf(sharers.written[key])

(***************************************************************************)
(* Claims about the index and the entries it stands for.                    *)
(***************************************************************************)
\* C35: after any sequence of get, put, stats, cleanup and clear calls,
\* failed storage writes included, the keys listed in the persisted index are
\* the keys that have a stored entry, and the index lists no key twice.
C35_IndexMatchesEntries ==
    /\ Range(IndexKeys(localStorage)) = StoredKeys(localStorage)
    /\ \A i, j \in 1..Len(IndexKeys(localStorage)) : i # j => IndexKeys(localStorage)[i] # IndexKeys(localStorage)[j]

(***************************************************************************)
(* Reads of the cache while the rest of the site fills storage.  The        *)
(* application keeps its own data under other keys of the same              *)
(* localStorage; a hit rewrites the entry with its new access metadata.     *)
(***************************************************************************)
\* another part of the site stores data, within the quota
OtherDataStored(bytes) ==
    /\ localStorage.other \in {0, PrefsBytes}
    /\ UsedBytes(localStorage) + bytes <= QUOTA
    /\ localStorage' = [localStorage EXCEPT !.other = @ + bytes]
    /\ UNCHANGED <<now, last, recency, fill, limiterVars, fetchVars, graphVars, entryVars, pathVars>>

\* getCachedTrack, for entries read up to MaxReads times
Read(key) ==
    /\ key \in StoredKeys(localStorage) => localStorage.items[key].hitCount < MaxReads
    /\ LET r == getCachedTrack(localStorage, key, now)
       IN  /\ localStorage' = r.ls
           /\ last' = [Report("get") EXCEPT !.hit = ~r.result.null, !.expired = r.expired,
                                            !.mismatch = VersionMismatch(localStorage)]
           /\ recency' = Listed(IF r.result.null THEN recency ELSE Touch(recency, key), r.ls)
    /\ fill' = Spoiled
    /\ UNCHANGED <<now, limiterVars, fetchVars, graphVars, entryVars, pathVars>>

InitRead ==
    /\ localStorage \in {EmptyStorage, PrefsStorage}
    /\ now = 0
    /\ FreshCache
    /\ FreshLimiter
    /\ FreshFetch
    /\ FreshGraph

NextRead ==
    \/ \E key \in 1..NumReadKeys : Read(key)
    \/ \E key \in 1..NumReadKeys, graph \in Subgraphs : Put(key, graph)
    \/ \E bytes \in 1..MaxOtherBytes : OtherDataStored(bytes)
    \/ \E t \in ClockValues : Tick(t)

SpecRead == InitRead /\ [][NextRead]_vars

\* C36: get answers with a miss only if no entry is stored under the key or
\* the stored entry is older than the TTL; a stored, unexpired entry is a hit
\* even when its updated access metadata cannot be persisted.
C36_MissOnlyWhenAbsentOrExpired ==
    [][last'.op = "get" =>
       \A key \in CacheKeys :
          (Read(key) /\ ~last'.hit) =>
             \/ key \notin StoredKeys(localStorage)
             \/ isExpired(localStorage.items[key], now)]_vars

(***************************************************************************)
(* Drill-down navigation: initializeArtistGraph, expandRelease and          *)
(* expandTrack, each on what the catalogue answers.                         *)
(***************************************************************************)
\* the release groups the catalogue may list for an artist; the primary type
\* is "" when the group has none
ReleaseGroups ==
    {[id |-> 1, primaryType |-> "Album"], [id |-> 2, primaryType |-> "Single"], [id |-> 3, primaryType |-> "EP"],
     [id |-> 4, primaryType |-> "Broadcast"], [id |-> 5, primaryType |-> ""]}
ReleaseGroupLists ==
    {l \in SeqsUpTo(ReleaseGroups, MaxDrillItems) : \A i, j \in 1..Len(l) : i # j => l[i] # l[j]}

\* getArtistReleases: the groups by primary type
getArtistReleases(groups) ==
    LET OfType(rg) == LowerCased(rg.primaryType)
    IN  [albums |-> SelectSeq(groups, LAMBDA rg : OfType(rg) = "album"),
         singles |-> SelectSeq(groups, LAMBDA rg : OfType(rg) = "single"),
         eps |-> SelectSeq(groups, LAMBDA rg : OfType(rg) = "ep"),
         other |-> SelectSeq(groups, LAMBDA rg : OfType(rg) \notin {"album", "single", "ep"})]

\* an entity of the drill-down graph
DrillEntity(id, type, parentId, childrenLoaded) ==
    [id |-> id, type |-> type, parentId |-> parentId, childrenLoaded |-> childrenLoaded]

\* initializeArtistGraph for the first artist found: the artist, its albums,
\* singles and EPs, and one released_on relationship for each
initializeArtistGraph(artist, groups) ==
    LET artistId == ArtistId(artist)
        releases == getArtistReleases(groups)
        allReleases == releases.albums \o releases.singles \o releases.eps
        releaseEntities == [i \in 1..Len(allReleases) |->
                               DrillEntity(AlbumId(allReleases[i].id), "album", <<artistId>>, FALSE)]
    IN  [entities |-> <<DrillEntity(artistId, "artist", <<>>, TRUE)>> \o releaseEntities,
         relationships |-> [i \in 1..Len(releaseEntities) |->
                               Relationship(<<"rel", artistId, releaseEntities[i].id>>, artistId,
                                            releaseEntities[i].id, "released_on")]]

\* expandRelease: one track entity and one contains relationship for every
\* track of the release, in track order
expandRelease(releaseEntityId, recordings) ==
    LET trackEntities == [i \in 1..Len(recordings) |->
                             DrillEntity(TrackId(recordings[i]), "track", <<releaseEntityId>>, FALSE)]
    IN  [entities |-> trackEntities,
         relationships |-> [i \in 1..Len(trackEntities) |->
                               Relationship(<<"rel", releaseEntityId, trackEntities[i].id>>, releaseEntityId,
                                            trackEntities[i].id, "contains")]]

DrillArtists == 1..NumDrillArtists
DrillCredits == SeqsUpTo([artist : DrillArtists, feat : {FALSE}], MaxDrillItems)
DrillRelations == SeqsUpTo([artist : DrillArtists, type : {"instrument", "producer"}], MaxDrillItems)

\* the alias table after an earlier buildGraphFromTrack call has fetched the
\* aliases of artist 1, one of which is the name of artist 2
KnownAliases ==
    LET fetched == fetchArtistAliases(NoAliases, 1, ArtistName(1)).table
    IN  [fetched EXCEPT !.aliasToMbidMap = AddAliases(@, ArtistAliases(1), 1)]

Drilled(op, input, credits, g) ==
    /\ probe.op = "none"
    /\ probe' = [op |-> op, input |-> input, credits |-> credits,
                 result |-> [entities |-> g.entities, relationships |-> g.relationships]]
    /\ UNCHANGED <<now, cacheVars, limiterVars, fetchVars, graphVars, assemblies, pathVars>>

InitializeArtistGraph(artist, groups) ==
    Drilled("initializeArtistGraph", groups, <<>>, initializeArtistGraph(artist, groups))

ExpandRelease(release, recordings) ==
    Drilled("expandRelease", recordings, <<>>, expandRelease(AlbumId(release), recordings))

ExpandTrackCredits(recordingId, artistCredits, relations) ==
    Drilled("expandTrack", relations, artistCredits, expandTrack(TrackId(recordingId), artistCredits, relations))

InitDrill ==
    /\ localStorage = EmptyStorage
    /\ now = 0
    /\ FreshCache
    /\ FreshLimiter
    /\ FreshFetch
    /\ build = NoBuild
    /\ assemblies = NoAssemblies
    /\ probe = NoProbe
    /\ wire = NoWire
    /\ sharers = NoSharers
    /\ images = NoImages
    /\ aliasTable \in {NoAliases, KnownAliases}

NextDrill ==
    \/ \E artist \in DrillArtists, groups \in ReleaseGroupLists : InitializeArtistGraph(artist, groups)
    \/ \E release \in 1..MaxDrillItems, recordings \in SeqsUpTo(1..MaxDrillItems, MaxDrillItems) :
          ExpandRelease(release, recordings)
    \/ \E recordingId \in TrackKeys, artistCredits \in DrillCredits, relations \in DrillRelations :
          ExpandTrackCredits(recordingId, artistCredits, relations)

SpecDrill == InitDrill /\ [][NextDrill]_vars

\* C32: initializeArtistGraph returns the artist entity plus exactly one
\* entity for each release the catalogue lists for the artist, whatever its
\* release type, each with the artist as parent and children not loaded, and
\* no personnel entity.
C32_OneEntityPerListedRelease ==
    probe.op = "initializeArtistGraph" =>
       LET entities == probe.result.entities
       IN  /\ entities[1].type = "artist"
           /\ \A i \in 1..Len(probe.input) :
                 Cardinality({k \in 2..Len(entities) : entities[k].id = AlbumId(probe.input[i].id)}) = 1
           /\ Len(entities) = 1 + Len(probe.input)
           /\ \A k \in 2..Len(entities) :
                 /\ entities[k].type = "album"
                 /\ entities[k].parentId = <<entities[1].id>>
                 /\ ~entities[k].childrenLoaded

\* C33: the results of expandRelease and expandTrack hold no two entities
\* with the same id and no two relationships with the same id, whatever the
\* track list and the relation list.
C33_DrillIdsDistinct ==
    probe.op \in {"expandRelease", "expandTrack"} =>
       /\ \A i, j \in 1..Len(probe.result.entities) :
             probe.result.entities[i].id = probe.result.entities[j].id => i = j
       /\ \A i, j \in 1..Len(probe.result.relationships) :
             probe.result.relationships[i].id = probe.result.relationships[j].id => i = j

\* C34: expandTrack resolves identities as buildGraphFromTrack does: credits
\* with different MBIDs and the same normalized name, or a credit whose name
\* is a known alias of another credited artist, end up as one artist entity,
\* with all their relationships targeting it.
C34_ExpandTrackResolvesIdentity ==
    probe.op = "expandTrack" =>
       LET entities == probe.result.entities
           credited == {probe.credits[i].artist : i \in 1..Len(probe.credits)}
                       \cup {probe.input[i].artist : i \in 1..Len(probe.input)}
       IN  /\ \A i, j \in 1..Len(entities) :
                 normalizeArtistName(entities[i].name) = normalizeArtistName(entities[j].name) => i = j
           /\ \A m \in credited :
                 LET canonical == resolveArtistAlias(aliasTable, ArtistName(m))
                 IN  (canonical # <<>> /\ canonical[1] # m /\ canonical[1] \in credited) =>
                        /\ \A i \in 1..Len(entities) : entities[i].id # ArtistId(m)
                        /\ \A i \in 1..Len(probe.result.relationships) :
                              probe.result.relationships[i].target # ArtistId(m)
(***************************************************************************)
(* The image section of buildGraphFromTrack.  One promise per primary       *)
(* artist, per additional artist (up to five) and for the album is started; *)
(* each sets its entity's image when it resolves with one, whenever that    *)
(* is.  The call waits for Promise.all of them raced against one timer,     *)
(* then awaits the cover of the single for the track image when the track   *)
(* was released as a single, hands the graph to setCachedTrack and returns  *)
(* it.  Time is counted in units of which the timer takes ImageTimeout.     *)
(***************************************************************************)
Holding(im) == {e \in GraphEntities : im.image[e]}
Unsettled(im) == {e \in GraphEntities \ {"track"} : im.fetches[e] = "pending"}

\* the track takes the album's image when it has none of its own; the
\* graph is serialised by setCachedTrack and returned
CacheAndReturn(im) ==
    LET done == [im EXCEPT !.image["track"] = @ \/ im.image["album"]]
    IN  [done EXCEPT !.pc = "returned", !.persisted = Holding(done), !.returned = Holding(done)]

\* after the race: `await getAlbumImage(singleArtist.name, singleRelease.title)`
\* when there is a single release, else straight on
AfterRace(im) ==
    IF im.single THEN [im EXCEPT !.pc = "single", !.fetches["track"] = "pending"]
    ELSE CacheAndReturn(im)

\* the promises are created and the race is awaited
FetchImages(single, withPersonnel, withAlbum) ==
    /\ images.pc = "idle"
    /\ single => withAlbum
    /\ images' = [NoImages EXCEPT
                     !.pc = "race", !.single = single,
                     !.fetches = [e \in GraphEntities |->
                                     IF \/ e = "artist"
                                        \/ e = "personnel" /\ withPersonnel
                                        \/ e = "album" /\ withAlbum
                                     THEN "pending" ELSE "none"]]
    /\ UNCHANGED <<now, cacheVars, limiterVars, fetchVars, graphVars, entryVars, wire, sharers>>

\* getArtistImage / getAlbumImage of an entity resolves, with an image or
\* without, or rejects (caught): `.then(image => { if (image) entity.image =
\* image })` runs wherever the call stands by then
ImageFetched(e, found) ==
    /\ e \in Unsettled(images)
    /\ images' = [images EXCEPT !.fetches[e] = "settled", !.image[e] = @ \/ found]
    /\ UNCHANGED <<now, cacheVars, limiterVars, fetchVars, graphVars, entryVars, wire, sharers>>

\* time passes while the call awaits
Waits ==
    /\ \/ images.pc = "race" /\ images.waited < ImageTimeout
       \/ images.pc = "single" /\ images.waited < MaxWait
    /\ images' = [images EXCEPT !.waited = @ + 1]
    /\ UNCHANGED <<now, cacheVars, limiterVars, fetchVars, graphVars, entryVars, wire, sharers>>

\* Promise.all(imagePromises) wins the race
AllSettled ==
    /\ images.pc = "race" /\ Unsettled(images) = {}
    /\ images' = AfterRace(images)
    /\ UNCHANGED <<now, cacheVars, limiterVars, fetchVars, graphVars, entryVars, wire, sharers>>

\* setTimeout(resolve, 15000) wins the race; the promises still unsettled
\* stay under way
TimeoutFires ==
    /\ images.pc = "race" /\ images.waited = ImageTimeout
    /\ images' = AfterRace([images EXCEPT !.timedOut = TRUE, !.pending = Unsettled(images)])
    /\ UNCHANGED <<now, cacheVars, limiterVars, fetchVars, graphVars, entryVars, wire, sharers>>

\* the cover of the single arrives, or none does, or the fetch fails (caught)
SingleImageFetched(found) ==
    /\ images.pc = "single"
    /\ images' = CacheAndReturn([images EXCEPT !.fetches["track"] = "settled", !.image["track"] = found])
    /\ UNCHANGED <<now, cacheVars, limiterVars, fetchVars, graphVars, entryVars, wire, sharers>>

InitImages ==
    /\ localStorage = EmptyStorage
    /\ now = 0
    /\ FreshCache
    /\ FreshLimiter
    /\ FreshFetch
    /\ FreshGraph

NextImages ==
    \/ \E single, withPersonnel, withAlbum \in BOOLEAN : FetchImages(single, withPersonnel, withAlbum)
    \/ \E e \in GraphEntities, found \in BOOLEAN : ImageFetched(e, found)
    \/ Waits
    \/ AllSettled
    \/ TimeoutFires
    \/ \E found \in BOOLEAN : SingleImageFetched(found)

SpecImages == InitImages /\ [][NextImages]_vars

\* time passes and the call's own continuations run; no image fetch has to
\* complete
SpecImagesFair ==
    /\ InitImages /\ [][NextImages]_vars
    /\ WF_vars(Waits) /\ WF_vars(AllSettled) /\ WF_vars(TimeoutFires)

\* C31 (as claimed): an entity whose image promise was unsettled when the
\* timer fired has no image in the graph handed to setCachedTrack and
\* returned, and the images of the returned graph's entities stay as they
\* were at the return.
C31_LateImagesStayOut ==
    images.pc = "returned" =>
       /\ \A e \in images.pending : e \notin images.persisted /\ e \notin images.returned
       /\ Holding(images) = images.returned

\* C38 (as claimed): a call that has reached its image section returns,
\* whether or not its image fetches complete, and never waits for images
\* longer than the timer takes.
C38_ReturnsDespiteImages ==
    /\ [](images.waited <= ImageTimeout)
    /\ [](images.pc = "race" => <>(images.pc = "returned"))

====
